---- MODULE Spec2Model ----
(***************************************************************************)
(* Model of the human-in-the-loop action queue (actions.ts), the response  *)
(* processing of the relay (relay.ts: processResponse) and the provider    *)
(* routing with its fallback chain (relay.ts: callClaude, fallback.ts).    *)
(*                                                                         *)
(* The relay is one single-threaded process: the code between two awaits   *)
(* runs atomically, and every await on the persistence backend, on the     *)
(* chat transport or on a model provider is a point where other handlers   *)
(* may run.  A step of a handler is the resolution of the request it waits  *)
(* for together with the code up to its next await.                        *)
(***************************************************************************)
EXTENDS Integers, Sequences, FiniteSets, TLC

\* ---------------------------------------------------------------- bounds
MaxCalls == 2       \* approveAction / denyAction invocations per behaviour
MaxActions == 2     \* rows the actions table can hold
MaxCrashes == 1     \* process crashes (with restart) per behaviour
MaxRespLen == 3     \* tokens of a model response
MaxRouterCalls == 2 \* callClaude invocations per behaviour
MaxConfigCalls == 3 \* getModelForAgent / setModelForAgent invocations per behaviour
MaxPieces == 2      \* pieces (prose, blanks, tags) a response text is made of
MaxSegs == 2        \* KEY: value segments of a rendered ACTION tag
MaxStatelessCalls == 1 \* callClaude invocations per behaviour with fallback and sessions
MaxTopics == 2      \* forum topic ids
MaxTopicSets == 3   \* setAgentTopicId invocations per behaviour
MaxProcs == 3       \* relay processes started per behaviour
MaxUpdates == 2     \* Telegram updates per behaviour

ActionIds == 1..MaxActions
UnknownId == 0      \* an id for which the table holds no row
CallIds == 1..MaxCalls
RouterCallIds == 1..MaxRouterCalls
ConfigCallIds == 1..MaxConfigCalls

Null == "null"       \* a null column value
NullId == -1         \* the null queueAction returns instead of an id

\* the type of the action tag that becomes row id: a type with a handler in
\* executeAction for odd ids, one without for even ids
InputType(id) == IF id % 2 = 1 THEN "create_task" ELSE "remind"

VARIABLES
  dbConfigured,   \* getSupabase() returns a client (credentials present)
  actions,        \* the actions table: id -> row (status "none": no row)
  nextId,         \* next id the persistence layer assigns on insert
  calls,          \* approveAction / denyAction invocations
  execCount,      \* id -> number of executeAction invocations for that id
  crashes,        \* number of crashes so far
  stuckAt,        \* id -> execCount at the crash that left it approved, -1 otherwise
  pr,             \* the processResponse invocation
  buttons,        \* ids for which an Approve / Deny keyboard was sent
  fallbackEnabled,  \* FALLBACK_ENABLED
  openRouterKey,    \* OPENROUTER_API_KEY is set
  lastProvider,     \* provider that served the last request
  rcalls,           \* callClaude invocations
  sessions,         \* the in-memory session store
  sessionFile,      \* content of SESSION_FILE
  modelTable,       \* the model_config table: agent -> row
  configCache,      \* configCache: agent -> cached row
  cacheFresh,       \* Date.now() - lastFetch <= CACHE_TTL
  ccalls,           \* getModelForAgent / setModelForAgent invocations
  meeting,          \* the runBoardMeeting invocation
  tcall,            \* the processResponse invocation on a text
  textDb,           \* the memory table and the action rows written for a text
  registry,         \* the agents' topic ids and the topicToAgent map
  lock,             \* LOCK_FILE and the relay processes
  gate              \* ALLOWED_USER_ID and the updates the bot has got

dbVars == <<dbConfigured, actions, nextId>>
aqVars == <<calls, execCount, crashes, stuckAt>>
prVars == <<pr, buttons>>
ssVars == <<sessions, sessionFile>>
rtVars == <<fallbackEnabled, openRouterKey, lastProvider, rcalls, ssVars>>
cfVars == <<modelTable, configCache, cacheFresh, ccalls>>
bmVars == <<meeting>>
txVars == <<tcall, textDb>>
rgVars == <<registry>>
lkVars == <<lock>>
gtVars == <<gate>>
envVars == <<rgVars, lkVars, gtVars>>
vars == <<dbVars, aqVars, prVars, rtVars, cfVars, bmVars, txVars, envVars>>

\* ------------------------------------------------------------ data model
NoRow == [status |-> "none", type |-> "", description |-> "", executed_at |-> Null]

NoRet == [success |-> FALSE, description |-> ""]

\* an invocation of approveAction / denyAction.  op, id, pc, action, result and
\* ret are the handler's own state; the other fields record what it observed:
\*   ran     it invoked executeAction        wrote   one of its updates changed a row
\*   fault   a persistence request of it failed
\*   start   status of the row when it was called
\*   stuck   the row was already left approved by a crash when it was called
\*   seen, seenAt   status and executed_at of the row when it returned
\*   before  the invocations that had returned when it was called
IdleCall ==
  [op |-> "none", id |-> UnknownId, pc |-> "idle", action |-> NoRow,
   result |-> "", ret |-> NoRet,
   ran |-> FALSE, wrote |-> FALSE, fault |-> FALSE,
   start |-> "none", stuck |-> FALSE, seen |-> "none", seenAt |-> Null,
   before |-> {}]

\* select("*").eq("id", id).single() on the actions table
GetRowIn(tbl, id) == IF id \in ActionIds THEN tbl[id] ELSE NoRow
GetRow(id) == GetRowIn(actions, id)

\* formatActionDescription: the type-specific summary (fields abstracted to "?")
FormatActionDescription(type) ==
  CASE type = "send_email" -> "Send email to ?"
    [] type = "create_task" -> "Create task: ?"
    [] type = "update_calendar" -> "Update calendar: ?"
    [] OTHER -> type \o ": "

\* executeAction: dispatch on the action type, every branch returns a string
ExecuteAction(action) ==
  CASE action.type = "send_email" -> "Email action logged"
    [] action.type = "create_task" -> "Task action logged"
    [] action.type = "update_calendar" -> "Calendar action logged"
    [] OTHER -> "Action logged. (No handler configured yet)"

\* status a row is inserted with (queueAction)
InitialStatus == "pending"

\* the state check at the start of approveAction / denyAction
NotPendingAlt(status) == status \notin {"pending", "approved"}
NotPending(status) == status # "pending"

AlreadyDesc(status) == "Action already " \o status

\* the fields each update request sets
ApproveFields == [status |-> "approved"]
DenyFields == [status |-> "denied"]
ExecutedFields == [status |-> "executed", executed_at |-> "ts"]

\* effect of update(fields).eq("id", id) on the row: a rejected update changes nothing
ApplyUpdateAlt(ok, row, fields) ==
  [f \in DOMAIN row |-> IF f \in DOMAIN fields THEN fields[f] ELSE row[f]]
ApplyUpdate(ok, row, fields) ==
  IF ok THEN [f \in DOMAIN row |-> IF f \in DOMAIN fields THEN fields[f] ELSE row[f]]
  ELSE row

\* return {success, description}
Done(c, tbl, success, description) ==
  [c EXCEPT !.pc = "done",
            !.ret = [success |-> success, description |-> description],
            !.seen = GetRowIn(tbl, c.id).status,
            !.seenAt = GetRowIn(tbl, c.id).executed_at]

\* ------------------------------------------------------------------ Init
\* ------------------------------------------------- response processing: data
\* a model response as a sequence of tokens: prose, [ACTION: ...] tags and
\* memory tags
ProseTokens == {"Sure!"}
ActionTags == {"[ACTION: create_task]", "[ACTION: remind]"}
MemoryTags == {"[REMEMBER: likes tea]"}
Tokens == ProseTokens \cup ActionTags \cup MemoryTags

Responses == UNION {[1..n -> Tokens] : n \in 0..MaxRespLen}

TagType(token) == IF token = "[ACTION: create_task]" THEN "create_task" ELSE "remind"

IsActionTag(token) == token \in ActionTags
NotActionTag(token) == token \notin ActionTags
NotMemoryTag(token) == token \notin MemoryTags

\* extractActions: the actions of the tags in order of appearance, and the text
\* without the tags
ExtractActions(response) ==
  LET tags == SelectSeq(response, IsActionTag)
  IN [cleaned |-> SelectSeq(response, NotActionTag),
      actions |-> [k \in 1..Len(tags) |-> [type |-> TagType(tags[k])]]]

\* processIntents: the text without the memory tags
ProcessIntents(text) == SelectSeq(text, NotMemoryTag)

\* processResponse sends the keyboard only for an action that was queued
ShouldSendButtonsAlt(actionId) == TRUE
ShouldSendButtons(actionId) == actionId # NullId

\* ------------------------------------------------------- provider routing: data
Providers == {"claude", "openrouter", "ollama"}

IsFallbackEnabledAlt == TRUE
IsFallbackEnabled == fallbackEnabled
IsOpenRouterAvailable == openRouterKey
\* OLLAMA_URL defaults to http://localhost:11434, so it is never empty
IsOllamaConfigured == TRUE

\* callOpenRouter throws at once without an API key; every other call may succeed or fail
Outcomes(provider) ==
  IF provider = "openrouter" /\ ~IsOpenRouterAvailable THEN {FALSE} ELSE BOOLEAN

ProviderText(provider) == "<" \o provider \o " response>"

FallbackDisabledText ==
  "Error: Claude is temporarily unavailable. No fallback providers configured."

\* Array.join(", ")
RECURSIVE JoinNames(_)
JoinNames(names) ==
  IF names = <<>> THEN ""
  ELSE IF Len(names) = 1 THEN names[1]
  ELSE names[1] \o ", " \o JoinNames(Tail(names))

\* the providers tryFallbacks lists in its last message: the configured ones
AvailableNames ==
  (IF IsOpenRouterAvailable THEN <<"OpenRouter">> ELSE <<>>)
    \o (IF IsOllamaConfigured THEN <<"Ollama">> ELSE <<>>)

AllUnavailableText(tried) ==
  "All AI providers are currently unavailable (tried: " \o tried
    \o "). Please try again later."

\* the last return of tryFallbacks
ExhaustedText ==
  LET available == JoinNames(AvailableNames)
  IN IF available # ""
     THEN AllUnavailableText("Claude, " \o available)
     ELSE "Claude is temporarily unavailable and no fallback providers are configured. Add OPENROUTER_API_KEY or set up Ollama for resilience."

\* where callClaude goes for the provider getModelForAgent returned
FirstAttempt(provider) ==
  IF provider = "openrouter" THEN "routeOpenRouter"
  ELSE IF provider = "ollama" THEN "routeOllama"
  ELSE "cli"

\* tryFallbacks: OpenRouter if available, then Ollama if configured
FirstFallbackAlt ==
  IF IsOllamaConfigured THEN "fbOllama" ELSE "exhausted"
FirstFallback ==
  IF IsOpenRouterAvailable THEN "fbOpenRouter"
  ELSE IF IsOllamaConfigured THEN "fbOllama"
  ELSE "exhausted"

SecondFallback == IF IsOllamaConfigured THEN "fbOllama" ELSE "exhausted"

IdlePR ==
  [pc |-> "idle", response |-> <<>>, afterActions |-> <<>>, todo |-> <<>>,
   actionId |-> NullId, first |-> 1, queued |-> <<>>, sent |-> <<>>, ret |-> <<>>]

\* ------------------------------------------------------------ session store
\* agent slugs a message can carry; Undefined: options.agentSlug is not given
AgentSlugs == {"general", "research"}
Undefined == "undefined"
SlugInputs == AgentSlugs \cup {Undefined}

NullSession == 0     \* sessionId: null
Absent == -1         \* sessions.agents has no entry for the key
LegacyId == MaxRouterCalls + 1  \* the session id of a session.json in the old format
NewSessionId(r) == r \* the id in the "Session ID: ..." line of call r's output

\* the store without lastActivity (timestamps are written, never read)
EmptyStore == [agents |-> [k \in AgentSlugs |-> Absent], sessionId |-> NullSession]

NoFile == [kind |-> "none", store |-> EmptyStore]
LegacyFile(id) == [kind |-> "legacy", store |-> [EmptyStore EXCEPT !.sessionId = id]]
StoreFile(store) == [kind |-> "store", store |-> store]

\* loadSessions: a missing or unreadable file gives the empty store, a file
\* without agents is migrated, any other file is returned as it is
LoadSessions(file) ==
  IF file.kind = "none" THEN EmptyStore
  ELSE IF file.kind = "legacy"
  THEN [agents |-> [EmptyStore.agents EXCEPT !["general"] = file.store.sessionId],
        sessionId |-> file.store.sessionId]
  ELSE file.store

\* const key = agentSlug || "general"
SessionKey(agentSlug) == IF agentSlug = Undefined THEN "general" ELSE agentSlug

\* sessions.agents[key]?.sessionId ?? sessions.sessionId
GetAgentSessionIdIn(store, agentSlug) ==
  LET own == store.agents[SessionKey(agentSlug)]
  IN IF own \in {Absent, NullSession} THEN store.sessionId ELSE own
GetAgentSessionId(agentSlug) == GetAgentSessionIdIn(sessions, agentSlug)

\* if (!agentSlug || agentSlug === "general")
MirrorsLegacyAlt(agentSlug) == TRUE
MirrorsLegacy(agentSlug) == agentSlug = Undefined \/ agentSlug = "general"

\* setAgentSessionId(agentSlug, sessionId)
SetAgentSessionId(store, agentSlug, sessionId) ==
  [agents |-> [store.agents EXCEPT ![SessionKey(agentSlug)] = sessionId],
   sessionId |-> IF MirrorsLegacy(agentSlug) THEN sessionId ELSE store.sessionId]

\* an invocation of callClaude.  provider: what getModelForAgent returned;
\* slug, resume: options; read: currentSessionId of callClaudeCLI; passed: the
\* id given to --resume; produced: the id setAgentSessionId stored; snapshot:
\* the JSON text saveSessions hands to writeFile; tracked: trackTokenUsage
\* invocations.  attempts, set and before are history of the call.
IdleRouterCall ==
  [pc |-> "idle", provider |-> "claude", attempts |-> <<>>, set |-> "none",
   text |-> "", before |-> {}, slug |-> Undefined, resume |-> FALSE,
   read |-> NullSession, passed |-> NullSession, produced |-> NullSession,
   snapshot |-> EmptyStore, tracked |-> 0]

\* ------------------------------------------------------- model assignment
\* a row of model_config / an entry of configCache, keyed by its agent
NoConfig == [provider |-> "none", model |-> "none"]
\* DEFAULT_CONFIG
DefaultConfig == [provider |-> "claude", model |-> "claude-cli"]
\* a row model_config holds before the relay starts
StoredConfig == [provider |-> "openrouter", model |-> "gateway-model"]
\* what the dashboard assigns
ConfigInputs == {[provider |-> "ollama", model |-> "local-model"]}
EmptyTable == [a \in AgentSlugs |-> NoConfig]

\* configCache.size
CacheSize(cache) == Cardinality({a \in AgentSlugs : cache[a] # NoConfig})

\* now - lastFetch > CACHE_TTL || configCache.size === 0
NeedsRefresh == ~cacheFresh \/ CacheSize(configCache) = 0

\* configCache.get(agentSlug) || { ...DEFAULT_CONFIG, agent: agentSlug }
CacheGetAlt(cache, agentSlug) ==
  [agent |-> agentSlug, provider |-> cache[agentSlug].provider,
   model |-> cache[agentSlug].model]
CacheGet(cache, agentSlug) ==
  LET row == IF cache[agentSlug] # NoConfig THEN cache[agentSlug] ELSE DefaultConfig
  IN [agent |-> agentSlug, provider |-> row.provider, model |-> row.model]

NoModel == [agent |-> "none", provider |-> "none", model |-> "none"]

\* an invocation of getModelForAgent (op "get") or setModelForAgent (op "set").
\* data: the rows the select returned (while the answer is in flight); held:
\* the cache entry of the agent when a failed refresh returned; noRow: the
\* fetched rows had none for the agent; before: the calls that had returned
\* when a getModelForAgent started; refreshed, fault, threw: history.
IdleConfigCall ==
  [op |-> "none", pc |-> "idle", agent |-> "general", config |-> NoConfig,
   data |-> EmptyTable, fetched |-> FALSE, ret |-> NoModel, threw |-> FALSE,
   refreshed |-> FALSE, fault |-> FALSE, held |-> NoConfig, noRow |-> FALSE,
   before |-> {}]

\* ----------------------------------------------------------- board meeting
AGENT_SLUGS == <<"general", "research", "content", "finance", "strategy", "critic">>

\* name: slug.charAt(0).toUpperCase() + slug.slice(1)
AgentName(slug) ==
  CASE slug = "general" -> "General"
    [] slug = "research" -> "Research"
    [] slug = "content" -> "Content"
    [] slug = "finance" -> "Finance"
    [] slug = "strategy" -> "Strategy"
    [] slug = "critic" -> "Critic"
    [] OTHER -> slug

IsSpecialistAlt(slug) == TRUE
IsSpecialist(slug) == slug # "general"
\* Array.from(agents.values()).filter((a) => a.slug !== "general")
GetSpecialistAgents == SelectSeq(AGENT_SLUGS, IsSpecialist)
GetGeneralAgent == "general"

\* what the injected callClaude gives a specialist: text, or an exception with
\* a message (the message of an Error may be empty)
ErrorMessages == {"timeout", ""}
NoErrorField == "undefined"
MeetingText(slug) == "<" \o slug \o " perspective>"
PlaceholderText(slug) == "[" \o AgentName(slug) \o " agent was unable to respond]"

\* callAgentForMeeting's return value (without durationMs)
AgentResponseAlt(slug, ok, errorMsg) ==
  [agent |-> slug, response |-> MeetingText(slug), error |-> NoErrorField]
AgentResponse(slug, ok, errorMsg) ==
  IF ok THEN [agent |-> slug, response |-> MeetingText(slug), error |-> NoErrorField]
  ELSE [agent |-> slug, response |-> PlaceholderText(slug), error |-> errorMsg]

PendingResponse == [agent |-> "none", response |-> "", error |-> NoErrorField]

\* Promise.all(responsePromises) resolves when every promise has
AllSettledAlt(slots) == \E i \in DOMAIN slots : slots[i] # PendingResponse
AllSettled(slots) == \A i \in DOMAIN slots : slots[i] # PendingResponse

\* responses.map((r) => `### ${r.agent.name}\n${r.response}`), before the join
AgentSummaries(responses) ==
  [i \in DOMAIN responses |->
     [name |-> AgentName(responses[i].agent), response |-> responses[i].response]]

SynthesisText == "<synthesis>"
FallbackSynthesis ==
  "Could not synthesize board meeting responses. See individual agent responses above."
\* synthesizeResponses returns what callClaude returns, or the fixed string
SynthesisOfAlt(ok) == SynthesisText
SynthesisOf(ok) == IF ok THEN SynthesisText ELSE FallbackSynthesis

\* the runBoardMeeting invocation.  slots: the promises of the specialist
\* calls, in the order of the specialists; responses: what Promise.all
\* resolved with; persona, summaries: the synthesis prompt; synthesis,
\* returned: the BoardMeetingResult; dispatched, synthCalls, pendingAtSynth,
\* failed, synthFailed, completed (the specialist calls in the order in which
\* they returned): history.
IdleMeeting ==
  [pc |-> "idle", slots |-> <<>>, dispatched |-> <<>>, responses |-> <<>>,
   synthCalls |-> 0, pendingAtSynth |-> {}, persona |-> "none",
   summaries |-> <<>>, synthesis |-> "", returned |-> FALSE,
   failed |-> {}, synthFailed |-> FALSE, completed |-> <<>>]

\* ------------------------------------------------------------ text: strings
\* a text is the sequence of its characters
\* the element of a one-element set: Only({F(x) : x \in {e}}) is F(e), with e
\* evaluated once
Only(S) == CHOOSE x \in S : TRUE

UpperCase == <<"A", "B", "C", "D", "E", "F", "G", "H", "I", "J", "K", "L", "M", "N", "O", "P", "Q", "R", "S", "T", "U", "V", "W", "X", "Y", "Z">>
LowerCase == <<"a", "b", "c", "d", "e", "f", "g", "h", "i", "j", "k", "l", "m", "n", "o", "p", "q", "r", "s", "t", "u", "v", "w", "x", "y", "z">>

Least(S) == CHOOSE x \in S : \A y \in S : x <= y
Greatest(S) == CHOOSE x \in S : \A y \in S : y <= x

\* String.prototype.toLowerCase
ToLowerCaseChar(c) ==
  IF \E i \in DOMAIN UpperCase : UpperCase[i] = c
  THEN LowerCase[CHOOSE i \in DOMAIN UpperCase : UpperCase[i] = c]
  ELSE c

ToLowerCase(s) == [k \in DOMAIN s |-> ToLowerCaseChar(s[k])]

\* \s of a regular expression, and the characters "." does not match
WhiteSpace == {" ", "\t", "\n"}
LineTerminators == {"\n"}

\* String.prototype.trim
Trim(s) ==
  LET keep == {k \in DOMAIN s : s[k] \notin WhiteSpace}
  IN IF keep = {} THEN <<>> ELSE SubSeq(s, Least(keep), Greatest(keep))

\* String.prototype.indexOf for one character, 0 when it does not occur
IndexOfAlt(s, c) ==
  LET at == {k \in DOMAIN s : s[k] = c}
  IN IF at = {} THEN 0 ELSE Greatest(at)
IndexOf(s, c) ==
  LET at == {k \in DOMAIN s : s[k] = c}
  IN IF at = {} THEN 0 ELSE Least(at)

\* String.prototype.split for a one-character separator
RECURSIVE Split(_, _)
Split(s, sep) ==
  LET i == IndexOf(s, sep)
  IN IF i = 0 THEN <<s>>
     ELSE <<SubSeq(s, 1, i - 1)>> \o Split(SubSeq(s, i + 1, Len(s)), sep)

\* the positions where sub occurs in s
Occurrences(s, sub) ==
  {p \in 1..(Len(s) - Len(sub) + 1) : SubSeq(s, p, p + Len(sub) - 1) = sub}

Includes(s, sub) == Occurrences(s, sub) # {}

\* String.prototype.replace(sub, ""): the first occurrence of sub is removed
ReplaceFirstAlt(s, sub) == s
ReplaceFirst(s, sub) ==
  IF ~Includes(s, sub) THEN s
  ELSE LET p == Least(Occurrences(s, sub))
       IN SubSeq(s, 1, p - 1) \o SubSeq(s, p + Len(sub), Len(s))

\* Array.prototype.join of texts
RECURSIVE Join(_, _)
Join(parts, sep) ==
  IF parts = <<>> THEN <<>>
  ELSE IF Len(parts) = 1 THEN parts[1]
  ELSE parts[1] \o sep \o Join(Tail(parts), sep)

\* ------------------------------------------------- text: regular expressions
\* a literal of a pattern with the i flag matches at position p
LiteralAt(text, p, literal) ==
  /\ p >= 1
  /\ p + Len(literal) - 1 <= Len(text)
  /\ \A k \in DOMAIN literal : ToLowerCaseChar(text[p + k - 1]) = ToLowerCaseChar(literal[k])

\* \s* taken greedily from position i: the first position it does not consume
SkipSpace(text, i) ==
  Least({k \in i..(Len(text) + 1) : k > Len(text) \/ text[k] \notin WhiteSpace})

\* (.+?)\] with the group starting at s: the position of the closing bracket, 0
\* when there is no match
CloseAfter(text, s) ==
  LET closers == {r \in (s + 1)..Len(text) : text[r] = "]"}
  IN IF closers = {} THEN 0
     ELSE LET r == Least(closers)
          IN IF \A k \in s..(r - 1) : text[k] \notin LineTerminators THEN r ELSE 0

\* \s*(.+?)\] from position a: \s* gives back what the group needs
GroupStarts(text, a) == {s \in a..SkipSpace(text, a) : CloseAfter(text, s) # 0}

NoMatch == [start |-> 0, end |-> 0, g1 |-> <<>>, has2 |-> FALSE, g2 |-> <<>>]

ActionPrefix == <<"[", "A", "C", "T", "I", "O", "N", ":">>
RememberPrefix == <<"[", "R", "E", "M", "E", "M", "B", "E", "R", ":">>
GoalPrefix == <<"[", "G", "O", "A", "L", ":">>
DonePrefix == <<"[", "D", "O", "N", "E", ":">>
DeadlineKey == <<"D", "E", "A", "D", "L", "I", "N", "E", ":">>

\* /\[ACTION:\s*([^\]|]+?)(?:\s*\|(.+?))?\]/gi at position p: the first group
\* ends at the first "]" or "|" and lazily leaves the blanks before a "|" out
ActionMatchAt(text, p) ==
  IF ~LiteralAt(text, p, ActionPrefix) THEN NoMatch
  ELSE LET a == p + Len(ActionPrefix)
           stops == {q \in a..Len(text) : text[q] \in {"]", "|"}}
       IN IF stops = {} \/ a \in stops THEN NoMatch
          ELSE LET q == Least(stops)
                   s == IF SkipSpace(text, a) < q THEN SkipSpace(text, a) ELSE q - 1
                   e == Least({k \in s..(q - 1) :
                                 \A j \in (k + 1)..(q - 1) : text[j] \in WhiteSpace})
                   r == CloseAfter(text, q + 1)
               IN IF text[q] = "]"
                  THEN [start |-> p, end |-> q, g1 |-> SubSeq(text, s, q - 1),
                        has2 |-> FALSE, g2 |-> <<>>]
                  ELSE IF r = 0 THEN NoMatch
                  ELSE [start |-> p, end |-> r, g1 |-> SubSeq(text, s, e),
                        has2 |-> TRUE, g2 |-> SubSeq(text, q + 1, r - 1)]

\* /\[REMEMBER:\s*(.+?)\]/gi and /\[DONE:\s*(.+?)\]/gi at position p
TagMatchAt(prefix, text, p) ==
  LET starts == GroupStarts(text, p + Len(prefix))
  IN IF ~LiteralAt(text, p, prefix) \/ starts = {} THEN NoMatch
     ELSE LET s == Greatest(starts)
          IN [start |-> p, end |-> CloseAfter(text, s),
              g1 |-> SubSeq(text, s, CloseAfter(text, s) - 1),
              has2 |-> FALSE, g2 |-> <<>>]

\* \s*\|\s*DEADLINE:\s*(.+?)\] after a first group that ends at e: the starts
\* of the second group
DeadlineStarts(text, e) ==
  LET i == SkipSpace(text, e + 1)
      j == SkipSpace(text, i + 1)
  IN IF i <= Len(text) /\ text[i] = "|" /\ LiteralAt(text, j, DeadlineKey)
     THEN GroupStarts(text, j + Len(DeadlineKey))
     ELSE {}

\* the ends of a first group that starts at s
GoalEnds(text, s) ==
  {e \in s..(Len(text) - 1) :
     /\ \A k \in s..e : text[k] \notin LineTerminators
     /\ DeadlineStarts(text, e) # {} \/ text[e + 1] = "]"}

\* /\[GOAL:\s*(.+?)(?:\s*\|\s*DEADLINE:\s*(.+?))?\]/gi at position p
GoalMatchAt(text, p) ==
  LET a == p + Len(GoalPrefix)
      starts == {s \in a..SkipSpace(text, a) : GoalEnds(text, s) # {}}
  IN IF ~LiteralAt(text, p, GoalPrefix) \/ starts = {} THEN NoMatch
     ELSE LET s == Greatest(starts)
              e == Least(GoalEnds(text, s))
              d == DeadlineStarts(text, e)
          IN IF d = {}
             THEN [start |-> p, end |-> e + 1, g1 |-> SubSeq(text, s, e),
                   has2 |-> FALSE, g2 |-> <<>>]
             ELSE [start |-> p, end |-> CloseAfter(text, Greatest(d)),
                   g1 |-> SubSeq(text, s, e), has2 |-> TRUE,
                   g2 |-> SubSeq(text, Greatest(d), CloseAfter(text, Greatest(d)) - 1)]

MatchAt(kind, text, p) ==
  CASE kind = "action" -> ActionMatchAt(text, p)
    [] kind = "remember" -> TagMatchAt(RememberPrefix, text, p)
    [] kind = "goal" -> GoalMatchAt(text, p)
    [] OTHER -> TagMatchAt(DonePrefix, text, p)

\* String.prototype.matchAll: the matches from left to right, each search
\* starting behind the match before
\* the leftmost of a set of matches, NoMatch for the empty set
FirstMatchAlt(ms) ==
  IF ms = {} THEN NoMatch ELSE CHOOSE m \in ms : \A n \in ms : m.start >= n.start
FirstMatch(ms) ==
  IF ms = {} THEN NoMatch ELSE CHOOSE m \in ms : \A n \in ms : m.start <= n.start

RECURSIVE MatchAllFrom(_, _, _)
MatchAllFrom(kind, text, from) ==
  Only({IF m = NoMatch THEN <<>> ELSE <<m>> \o MatchAllFrom(kind, text, m.end + 1) :
        m \in {FirstMatch({MatchAt(kind, text, p) : p \in from..Len(text)} \ {NoMatch})}})

MatchAll(kind, text) == MatchAllFrom(kind, text, 1)

\* match[0]
Matched(text, m) == SubSeq(text, m.start, m.end)

\* ------------------------------------------------------ text: extractActions
\* fields[key] = value on an object with string keys: a key keeps its place
SetField(fields, key, value) ==
  IF \E k \in DOMAIN fields : fields[k].key = key
  THEN [k \in DOMAIN fields |->
          IF fields[k].key = key THEN [key |-> key, value |-> value] ELSE fields[k]]
  ELSE Append(fields, [key |-> key, value |-> value])

\* the loop over the pairs of a tag: a pair without a colon is skipped, the
\* others are cut at the first colon
RECURSIVE ParsePairs(_, _)
ParsePairs(pairs, fields) ==
  IF pairs = <<>> THEN fields
  ELSE LET pair == Head(pairs)
           colonIdx == IndexOf(pair, ":")
       IN IF colonIdx = 0 THEN ParsePairs(Tail(pairs), fields)
          ELSE ParsePairs(Tail(pairs),
                          SetField(fields,
                                   ToLowerCase(Trim(SubSeq(pair, 1, colonIdx - 1))),
                                   Trim(SubSeq(pair, colonIdx + 1, Len(pair)))))

ParsedAction(m) ==
  [type |-> ToLowerCase(Trim(m.g1)),
   fields |-> IF m.has2 THEN ParsePairs(Split(m.g2, "|"), <<>>) ELSE <<>>]

\* cleaned = cleaned.replace(match[0], "") for every match in turn
RECURSIVE RemoveMatches(_, _, _)
RemoveMatches(cleaned, text, matches) ==
  IF matches = <<>> THEN cleaned
  ELSE RemoveMatches(ReplaceFirst(cleaned, Matched(text, Head(matches))), text,
                     Tail(matches))

ExtractActionsOf(response) ==
  Only({[cleaned |-> Trim(RemoveMatches(response, response, matches)),
         actions |-> [k \in DOMAIN matches |-> ParsedAction(matches[k])]] :
        matches \in {MatchAll("action", response)}})

\* the fields of an action as a mapping from keys to values
FieldKeys(fields) == {fields[k].key : k \in DOMAIN fields}
FieldMap(fields) ==
  [key \in FieldKeys(fields) |->
     fields[CHOOSE k \in DOMAIN fields : fields[k].key = key].value]

\* f.key || "?": a missing or empty field is falsy
FieldOr(fields, key, default) ==
  IF key \in FieldKeys(fields) /\ FieldMap(fields)[key] # <<>>
  THEN FieldMap(fields)[key] ELSE default

Entry(field) == field.key \o <<"=">> \o field.value

\* formatActionDescription
DescriptionOfAlt(action) == action.type
DescriptionOf(action) ==
  LET f == action.fields
      to == FieldOr(f, <<"t", "o">>, <<>>)
      subject == FieldOr(f, <<"s", "u", "b", "j", "e", "c", "t">>, <<>>)
      title == FieldOr(f, <<"t", "i", "t", "l", "e">>, <<>>)
      due == FieldOr(f, <<"d", "u", "e">>, <<>>)
      event == FieldOr(f, <<"e", "v", "e", "n", "t">>, <<>>)
      time == FieldOr(f, <<"t", "i", "m", "e">>, <<>>)
      opt(before, value, after) == IF value = <<>> THEN <<>> ELSE before \o value \o after
      req(value) == IF value = <<>> THEN <<"?">> ELSE value
  IN CASE action.type = <<"s", "e", "n", "d", "_", "e", "m", "a", "i", "l">> ->
            <<"S", "e", "n", "d", " ", "e", "m", "a", "i", "l", " ", "t", "o", " ">> \o req(to) \o opt(<<":", " ", "\"">>, subject, <<"\"">>)
       [] action.type = <<"c", "r", "e", "a", "t", "e", "_", "t", "a", "s", "k">> ->
            <<"C", "r", "e", "a", "t", "e", " ", "t", "a", "s", "k", ":", " ">> \o <<"\"">> \o req(title) \o <<"\"">>
              \o opt(<<" ", "(", "d", "u", "e", " ">>, due, <<")">>)
       [] action.type = <<"u", "p", "d", "a", "t", "e", "_", "c", "a", "l", "e", "n", "d", "a", "r">> ->
            <<"U", "p", "d", "a", "t", "e", " ", "c", "a", "l", "e", "n", "d", "a", "r", ":", " ">> \o <<"\"">> \o req(event) \o <<"\"">>
              \o opt(<<" ", "a", "t", " ">>, time, <<>>)
       [] OTHER ->
            action.type \o <<":", " ">> \o Join([k \in DOMAIN f |-> Entry(f[k])], <<",", " ">>)

\* ----------------------------------------------------- text: memory intents
\* a directive of processIntents: match[0], match[1].trim() and match[2]?.trim()
IntentOf(kind, text, m) ==
  [kind |-> kind, matched |-> Matched(text, m), content |-> Trim(m.g1),
   deadline |-> IF m.has2 THEN Trim(m.g2) ELSE <<>>]

IntentsOfKind(kind, text) ==
  Only({[k \in DOMAIN matches |-> IntentOf(kind, text, matches[k])] :
        matches \in {MatchAll(kind, text)}})

\* the three loops of processIntents run one after the other over the same text
IntentsOf(text) ==
  IntentsOfKind("remember", text) \o IntentsOfKind("goal", text)
    \o IntentsOfKind("done", text)

\* clean = clean.replace(match[0], "") follows every persistence call
CleanAfterAlt(clean, intent, stored) ==
  IF stored THEN ReplaceFirst(clean, intent.matched) ELSE clean
CleanAfter(clean, intent, stored) == ReplaceFirst(clean, intent.matched)

\* the row saveFact and saveGoal insert; an empty deadline is not set
MemoryRowAlt(intent) ==
  [type |-> IF intent.kind = "remember" THEN "fact" ELSE "goal",
   content |-> intent.content, deadline |-> <<>>, completed_at |-> FALSE]
MemoryRow(intent) ==
  [type |-> IF intent.kind = "remember" THEN "fact" ELSE "goal",
   content |-> intent.content, deadline |-> intent.deadline, completed_at |-> FALSE]

\* .eq("type", "goal").ilike("content", `%${searchText}%`) for a search text
\* without the wildcards of LIKE
MatchingGoals(memory, searchText) ==
  {i \in DOMAIN memory :
     /\ memory[i].type = "goal"
     /\ Includes(ToLowerCase(memory[i].content), ToLowerCase(searchText))}

\* .limit(1) without an order: any one of the matching rows
Selected(memory, searchText) == MatchingGoals(memory, searchText)

\* .update({type: "completed_goal", completed_at}).eq("id", data[0].id)
CompleteRow(memory, i) ==
  [memory EXCEPT ![i] = [@ EXCEPT !.type = "completed_goal", !.completed_at = TRUE]]

\* the row queueAction inserts
ActionRow(action) ==
  [type |-> action.type, description |-> DescriptionOf(action),
   payload |-> action.fields, status |-> InitialStatus]

\* ------------------------------------------------------------ text: inputs
Prose == <<"O", "k", ".">>
Blank == <<" ">>
RemindTag == <<"[", "A", "C", "T", "I", "O", "N", ":", " ", "r", "e", "m", "i", "n", "d", " ", "|", " ", "A", "T", ":", " ", "9", ":", "3", "0", "]">>
TaskTag == <<"[", "a", "c", "t", "i", "o", "n", ":", " ", "C", "r", "e", "a", "t", "e", "_", "T", "a", "s", "k", "]">>
RememberTag == <<"[", "R", "E", "M", "E", "M", "B", "E", "R", ":", " ", "l", "i", "k", "e", "s", " ", "t", "e", "a", "]">>
GoalTag == <<"[", "G", "O", "A", "L", ":", " ", "f", "i", "n", "i", "s", "h", " ", "r", "e", "p", "o", "r", "t", " ", "|", " ", "D", "E", "A", "D", "L", "I", "N", "E", ":", " ", "f", "r", "i", "d", "a", "y", "]">>
DoneTag == <<"[", "D", "O", "N", "E", ":", " ", "R", "e", "p", "o", "r", "t", "]">>
Pieces == {Prose, Blank, RemindTag, TaskTag, RememberTag, GoalTag, DoneTag}

RECURSIVE Concat(_)
Concat(parts) == IF parts = <<>> THEN <<>> ELSE Head(parts) \o Concat(Tail(parts))

PieceTexts == {Concat(parts) : parts \in UNION {[1..n -> Pieces] : n \in 0..MaxPieces}}

ScenarioA ==
  <<"S", "u", "r", "e", "!", " ", "[", "A", "C", "T", "I", "O", "N", ":", " ", "c", "r", "e", "a", "t", "e", "_", "t", "a", "s", "k", " ", "|", " ", "T", "I", "T", "L", "E", ":", " ", "B", "u", "y", " ", "m", "i", "l", "k", " ", "|", " ", "D", "U", "E", ":", " ", "t", "o", "m", "o", "r", "r", "o", "w", "]", " ", "D", "o", "n", "e", ".">>

\* the segments of a tag, as written between the bars
Segments == {<<" ", "T", "O", ":", " ", "a", "@", "b", " ">>, <<" ", "A", "t", " ", ":", "9", ":", "3", "0">>, <<"t", "o", ":", "c">>, <<" ", "C", "c", ":", " ", "x">>}

Injective(seq) == \A i, j \in DOMAIN seq : seq[i] = seq[j] => i = j
SegmentOrders ==
  {segs \in UNION {[1..n -> Segments] : n \in 0..MaxSegs} : Injective(segs)}

RECURSIVE WithBars(_)
WithBars(segs) ==
  IF segs = <<>> THEN <<>> ELSE <<"|">> \o Head(segs) \o WithBars(Tail(segs))

RenderTag(segs) == <<"[", "A", "C", "T", "I", "O", "N", ":", " ", "S", "e", "n", "d", "_", "E", "m", "a", "i", "l", " ">> \o WithBars(segs) \o <<"]">>

TagTexts == {RenderTag(segs) : segs \in SegmentOrders}

\* Scenario D of the specification, between two pieces of prose
ScenarioDParts == <<Prose, Blank, RememberTag, GoalTag, Blank, Prose>>
ScenarioD == Concat(ScenarioDParts)

TextInputs == PieceTexts \cup {ScenarioA, ScenarioD} \cup TagTexts

\* two open goals that mention a report, the second one the more recent
InitialMemory ==
  << [type |-> "goal", content |-> <<"F", "i", "n", "i", "s", "h", " ", "r", "e", "p", "o", "r", "t">>, deadline |-> <<>>,
      completed_at |-> FALSE],
     [type |-> "goal", content |-> <<"R", "e", "p", "o", "r", "t", " ", "c", "a", "r", "d">>, deadline |-> <<>>,
      completed_at |-> FALSE],
     [type |-> "fact", content |-> <<"r", "e", "p", "o", "r", "t", " ", "d", "u", "e">>, deadline |-> <<>>,
      completed_at |-> FALSE],
     [type |-> "completed_goal", content |-> <<"o", "l", "d", " ", "r", "e", "p", "o", "r", "t">>, deadline |-> <<>>,
      completed_at |-> TRUE] >>

InitialTextDb == [memory |-> InitialMemory, actions |-> <<>>]

IdleText ==
  [pc |-> "idle", response |-> <<>>, afterActions |-> <<>>, actions |-> <<>>,
   next |-> 1, todo |-> <<>>, clean |-> <<>>, found |-> 0, outcomes |-> <<>>,
   ret |-> <<>>]

\* ------------------------------------------------------------ topic registry
TopicIds == 1..MaxTopics
NoTopic == 0         \* topicId is not set
RegistrySlugs == {AGENT_SLUGS[i] : i \in DOMAIN AGENT_SLUGS}

\* config/agents.json: missing, or one agent with a topic
NoMapping == [a \in RegistrySlugs |-> NoTopic]
InitialMappings == {NoMapping, [NoMapping EXCEPT !["general"] = 1]}

\* initAgents: every agent of the mapping gets its topic id, and the topic id
\* gets the agent
InitAgents(mapping) ==
  [topicId |-> mapping,
   topicToAgent |-> [t \in TopicIds |->
                       IF \E a \in RegistrySlugs : mapping[a] = t
                       THEN CHOOSE a \in RegistrySlugs : mapping[a] = t
                       ELSE Undefined],
   sets |-> 0]

IdleRegistry == InitAgents(NoMapping)

\* getAgentByTopicId(topicId): the slug of the agent, Undefined without one
GetAgentByTopicId(topicId) == registry.topicToAgent[topicId]

\* ----------------------------------------------------------------- lock file
Pids == 1..MaxProcs
NoLock == 0          \* LOCK_FILE does not exist
IdleProc == [pc |-> "idle", got |-> "none", seen |-> NoLock]
IdleLock == [file |-> NoLock, procs |-> [p \in Pids |-> IdleProc]]

\* process.kill(pid, 0) does not throw
ProcessExists(pid) == lock.procs[pid].pc \in {"read", "write", "running"}

\* ------------------------------------------------------ authorization gate
NoUser == ""         \* TELEGRAM_USER_ID is not set
Owner == "owner"
\* ctx.from?.id.toString(): the owner, somebody else, or no sender at all
UserIds == {Owner, "other", Undefined}
MessageKinds == {"text", "voice", "photo", "document"}
UpdateKinds == MessageKinds \cup {"board", "approve", "deny"}
IdleGate == [allowed |-> NoUser, updates |-> <<>>]

\* the middleware lets the update through to the handlers
RejectsAlt(userId) == FALSE
Rejects(userId) == gate.allowed # NoUser /\ userId # gate.allowed

\* what the handler of an update calls; queues: the response holds an action tag
HandlerCalls(kind, queues) ==
  IF kind \in MessageKinds
  THEN {"callClaude"} \cup (IF queues THEN {"queueAction"} ELSE {})
  ELSE IF kind = "board" THEN {"callClaude"}
  ELSE IF kind = "approve" THEN {"approveAction"}
  ELSE {"denyAction"}

InitEnvDefault ==
  /\ registry = IdleRegistry
  /\ lock = IdleLock
  /\ gate = IdleGate

InitDb ==
  /\ dbConfigured \in BOOLEAN
  /\ actions = [i \in ActionIds |-> NoRow]
  /\ nextId = 1

InitQueue ==
  /\ calls = [c \in CallIds |-> IdleCall]
  /\ execCount = [i \in ActionIds |-> 0]
  /\ crashes = 0
  /\ stuckAt = [i \in ActionIds |-> -1]

InitResponse ==
  /\ pr = IdlePR
  /\ buttons = {}

\* FALLBACK_ENABLED defaults to true, OPENROUTER_API_KEY to "", lastProvider to "claude"
InitRouterDefault ==
  /\ fallbackEnabled = TRUE
  /\ openRouterKey = FALSE
  /\ lastProvider = "claude"
  /\ rcalls = [r \in RouterCallIds |-> IdleRouterCall]
  /\ sessionFile = NoFile
  /\ sessions = LoadSessions(sessionFile)

\* the module state of the model manager: an empty cache, lastFetch = 0
InitConfigDefault ==
  /\ modelTable = EmptyTable
  /\ configCache = EmptyTable
  /\ cacheFresh = FALSE
  /\ ccalls = [c \in ConfigCallIds |-> IdleConfigCall]

InitBoardDefault == meeting = IdleMeeting

InitTextDefault ==
  /\ tcall = IdleText
  /\ textDb = InitialTextDb

Init ==
  InitDb /\ InitQueue /\ InitResponse /\ InitRouterDefault /\ InitConfigDefault
    /\ InitBoardDefault /\ InitTextDefault /\ InitEnvDefault

\* --------------------------------------------------------------- actions
\* queueAction(action): insert a row with status pending and return its id;
\* null without a client or when the insert fails (ok: the insert succeeds)
QueueActionResultAlt(type, ok) ==
  [actions |-> [actions EXCEPT ![nextId] =
                  [status |-> InitialStatus, type |-> type,
                   description |-> FormatActionDescription(type),
                   executed_at |-> Null]],
   nextId |-> nextId + 1,
   id |-> IF ~dbConfigured \/ ~ok THEN NullId ELSE nextId]
QueueActionResult(type, ok) ==
  IF ~dbConfigured \/ ~ok
  THEN [actions |-> actions, nextId |-> nextId, id |-> NullId]
  ELSE [actions |-> [actions EXCEPT ![nextId] =
                       [status |-> InitialStatus, type |-> type,
                        description |-> FormatActionDescription(type),
                        executed_at |-> Null]],
        nextId |-> nextId + 1,
        id |-> nextId]

QueueAction(type) ==
  /\ nextId \in ActionIds
  /\ \E ok \in BOOLEAN :
       LET q == QueueActionResult(type, ok)
       IN /\ actions' = q.actions
          /\ nextId' = q.nextId
  /\ UNCHANGED <<dbConfigured, aqVars, prVars, rtVars, cfVars, bmVars, txVars, envVars>>

Started(c) == calls[c].pc # "idle"
DoneCalls == {c \in CallIds : calls[c].pc = "done"}

\* ids a callback can carry: those of the rows queued so far, or one of no row
CallableIds == {i \in ActionIds : i < nextId} \cup {UnknownId}

\* approveAction(id) / denyAction(id) up to the first await (getAction)
StartCall(c, op, id) ==
  /\ calls[c].pc = "idle"
  /\ IF c = 1 THEN TRUE ELSE Started(c - 1)
  /\ LET c0 == [calls[c] EXCEPT !.op = op, !.id = id, !.before = DoneCalls,
                                !.start = GetRow(id).status,
                                !.stuck = (id \in ActionIds /\ stuckAt[id] # -1)]
     IN calls' = [calls EXCEPT ![c] =
          IF ~dbConfigured
          THEN Done(c0, actions, FALSE, "Database unavailable")
          ELSE [c0 EXCEPT !.pc = "getAction"]]
  /\ UNCHANGED <<dbConfigured, actions, nextId, execCount, crashes, stuckAt, prVars, rtVars, cfVars, bmVars, txVars, envVars>>

ApproveStart(c, id) == StartCall(c, "approve", id)
DenyStart(c, id) == StartCall(c, "deny", id)

\* getAction resolves; the handler checks the row and issues the status update
GetActionReturn(c) ==
  /\ calls[c].pc = "getAction"
  /\ \E err \in BOOLEAN :
       LET row == IF err THEN NoRow ELSE GetRow(calls[c].id)
           c0 == [calls[c] EXCEPT !.fault = err]
       IN calls' = [calls EXCEPT ![c] =
            IF row.status = "none"
            THEN Done(c0, actions, FALSE, "Action not found")
            ELSE IF NotPending(row.status)
            THEN Done(c0, actions, FALSE, AlreadyDesc(row.status))
            ELSE [c0 EXCEPT !.pc = "update", !.action = row]]
  /\ UNCHANGED <<dbConfigured, actions, nextId, execCount, crashes, stuckAt, prVars, rtVars, cfVars, bmVars, txVars, envVars>>

\* update({status}).eq("id", id) resolves; approveAction goes on to execute the
\* action and issues the executed update, denyAction returns
UpdateReturn(c) ==
  /\ calls[c].pc = "update"
  /\ \E ok \in BOOLEAN :
       LET cc == calls[c]
           id == cc.id
           new == ApplyUpdate(ok, actions[id],
                    IF cc.op = "approve" THEN ApproveFields ELSE DenyFields)
           tbl == [actions EXCEPT ![id] = new]
           c0 == [cc EXCEPT !.fault = cc.fault \/ ~ok,
                            !.wrote = cc.wrote \/ ok \/ (new # actions[id])]
       IN /\ actions' = tbl
          /\ IF ~ok
             THEN /\ calls' = [calls EXCEPT ![c] =
                       Done(c0, tbl, FALSE,
                            IF cc.op = "approve" THEN "Failed to approve" ELSE "Failed to deny")]
                  /\ UNCHANGED execCount
             ELSE IF cc.op = "deny"
             THEN /\ calls' = [calls EXCEPT ![c] = Done(c0, tbl, TRUE, cc.action.description)]
                  /\ UNCHANGED execCount
             ELSE /\ calls' = [calls EXCEPT ![c] =
                       [c0 EXCEPT !.pc = "markExecuted",
                                  !.result = ExecuteAction(cc.action),
                                  !.ran = TRUE]]
                  /\ execCount' = [execCount EXCEPT ![id] = @ + 1]
  /\ UNCHANGED <<dbConfigured, nextId, crashes, stuckAt, prVars, rtVars, cfVars, bmVars, txVars, envVars>>

\* update({status: executed, executed_at}) resolves; its error is not inspected
MarkExecutedReturn(c) ==
  /\ calls[c].pc = "markExecuted"
  /\ \E ok \in BOOLEAN :
       LET cc == calls[c]
           id == cc.id
           new == ApplyUpdate(ok, actions[id], ExecutedFields)
           tbl == [actions EXCEPT ![id] = new]
           c0 == [cc EXCEPT !.fault = cc.fault \/ ~ok,
                            !.wrote = cc.wrote \/ ok \/ (new # actions[id])]
       IN /\ actions' = tbl
          /\ calls' = [calls EXCEPT ![c] = Done(c0, tbl, TRUE, cc.result)]
  /\ UNCHANGED <<dbConfigured, nextId, execCount, crashes, stuckAt, prVars, rtVars, cfVars, bmVars, txVars, envVars>>

InFlight(c) == calls[c].pc \notin {"idle", "done", "lost"}

\* the update request an invocation has in flight
PendingWrite(c) ==
  IF calls[c].pc = "markExecuted" THEN ExecutedFields
  ELSE IF calls[c].op = "approve" THEN ApproveFields ELSE DenyFields

Writers == {c \in CallIds : calls[c].pc \in {"update", "markExecuted"}}

Orders(S) == {s \in [1..Cardinality(S) -> S] : \A i, j \in 1..Cardinality(S) : i # j => s[i] # s[j]}

RECURSIVE Land(_, _)
Land(tbl, order) ==
  IF order = <<>> THEN tbl
  ELSE LET c == Head(order)
       IN Land([tbl EXCEPT ![calls[c].id] = ApplyUpdate(TRUE, @, PendingWrite(c))], Tail(order))

\* the process dies and is restarted: every handler in flight is lost, the table
\* stays; of the update requests in flight, some still reach the backend
Crash ==
  /\ crashes < MaxCrashes
  /\ \E c \in CallIds : InFlight(c)
  /\ crashes' = crashes + 1
  /\ \E landed \in SUBSET Writers : \E order \in Orders(landed) :
       LET tbl == Land(actions, order)
           approvedBy(i) == \E c \in CallIds :
              /\ calls[c].op = "approve" /\ calls[c].id = i
              /\ \/ calls[c].pc = "update" /\ c \in landed
                 \/ calls[c].pc = "markExecuted" /\ c \notin landed
       IN /\ actions' = tbl
          /\ stuckAt' = [i \in ActionIds |->
               IF tbl[i].status = "approved" /\ approvedBy(i)
               THEN execCount[i] ELSE stuckAt[i]]
  /\ calls' = [c \in CallIds |-> IF InFlight(c) THEN [calls[c] EXCEPT !.pc = "lost"] ELSE calls[c]]
  /\ UNCHANGED <<dbConfigured, nextId, execCount, prVars, rtVars, cfVars, bmVars, txVars, envVars>>

Next ==
  \/ QueueAction(InputType(nextId))
  \/ \E c \in CallIds, id \in CallableIds : ApproveStart(c, id)
  \/ \E c \in CallIds, id \in CallableIds : DenyStart(c, id)
  \/ \E c \in CallIds : GetActionReturn(c)
  \/ \E c \in CallIds : UpdateReturn(c)
  \/ \E c \in CallIds : MarkExecutedReturn(c)
  \/ Crash

Spec == Init /\ [][Next]_vars

TypeOK ==
  /\ dbConfigured \in BOOLEAN
  /\ \A i \in ActionIds : actions[i].status \in {"none", "pending", "approved", "denied", "executed"}
  /\ nextId \in 1..(MaxActions + 1)

\* ---------------------------------------------- response processing: actions
AfterAction(todo) == IF Tail(todo) = <<>> THEN "intents" ELSE "queue"

\* processResponse(ctx, response) up to its first await
PRStart(response) ==
  /\ pr.pc \in {"idle", "done"}
  /\ LET e == ExtractActions(response)
     IN /\ nextId + Len(e.actions) <= MaxActions + 1
        /\ pr' = [IdlePR EXCEPT !.pc = IF e.actions = <<>> THEN "intents" ELSE "queue",
                                !.response = response,
                                !.afterActions = e.cleaned,
                                !.todo = e.actions,
                                !.first = nextId]
  /\ UNCHANGED <<dbVars, buttons, aqVars, rtVars, cfVars, bmVars, txVars, envVars>>

\* queueAction(action) resolves for the next action of the loop
PRQueueReturn ==
  /\ pr.pc = "queue"
  /\ \E ok \in BOOLEAN :
       LET q == QueueActionResult(Head(pr.todo).type, ok)
       IN /\ actions' = q.actions
          /\ nextId' = q.nextId
          /\ pr' = IF ShouldSendButtons(q.id)
                   THEN [pr EXCEPT !.pc = "reply", !.actionId = q.id,
                                   !.queued = Append(@, q.id)]
                   ELSE [pr EXCEPT !.pc = AfterAction(pr.todo), !.todo = Tail(@),
                                   !.queued = Append(@, q.id)]
  /\ UNCHANGED <<dbConfigured, buttons, aqVars, rtVars, cfVars, bmVars, txVars, envVars>>

\* ctx.reply with the Approve / Deny keyboard resolves
PRReplyReturn ==
  /\ pr.pc = "reply"
  /\ buttons' = buttons \cup {pr.actionId}
  /\ pr' = [pr EXCEPT !.pc = AfterAction(pr.todo), !.todo = Tail(@),
                      !.sent = Append(@, pr.actionId), !.actionId = NullId]
  /\ UNCHANGED <<dbVars, aqVars, rtVars, cfVars, bmVars, txVars, envVars>>

\* processIntents(afterActions) resolves and processResponse returns
PRIntentsReturn ==
  /\ pr.pc = "intents"
  /\ pr' = [pr EXCEPT !.pc = "done", !.ret = ProcessIntents(pr.afterActions)]
  /\ UNCHANGED <<dbVars, buttons, aqVars, rtVars, cfVars, bmVars, txVars, envVars>>

NextPR ==
  \/ \E response \in Responses : PRStart(response)
  \/ PRQueueReturn
  \/ PRReplyReturn
  \/ PRIntentsReturn

SpecPR == Init /\ [][NextPR]_vars

\* -------------------------------------------------- provider routing: actions
RouterStarted(r) == rcalls[r].pc # "idle"
RouterDone == {r \in RouterCallIds : rcalls[r].pc = "done"}

\* an attempt and the session id its request carries: the CLI gets the id
\* passed to --resume, callOpenRouter and callOllama build their request from
\* the prompt alone
Attempt(r, provider, ok) ==
  [rcalls[r] EXCEPT !.attempts =
     Append(@, [provider |-> provider, ok |-> ok,
                session |-> IF provider = "claude" THEN rcalls[r].passed
                            ELSE NullSession])]

\* a provider returned text: callClaude records the provider and returns the text
Served(rc, provider) ==
  [rc EXCEPT !.pc = "done", !.set = provider, !.text = ProviderText(provider)]

\* callClaudeCLI returns: it has handed the usage to trackTokenUsage
ServedByCli(rc) == [Served(rc, "claude") EXCEPT !.tracked = @ + 1]

\* tryFallbacks found no provider: callClaude records "error" and returns the message
Exhausted(rc) ==
  [rc EXCEPT !.pc = "done", !.set = "error", !.text = ExhaustedText]

\* callClaudeCLI up to the await on the subprocess: it reads the session id of
\* the agent and passes it to --resume when options.resume is set
EnterCli(rc) ==
  LET currentSessionId == GetAgentSessionId(rc.slug)
  IN [rc EXCEPT !.pc = "cli", !.read = currentSessionId,
                !.passed = IF rc.resume /\ currentSessionId # NullSession
                           THEN currentSessionId ELSE NullSession]

\* what a finished subprocess gives: a non-zero exit code, output without a
\* "Session ID:" line, output with one
CliOutputs == {"exit", "text", "session"}

\* callClaude(prompt, options): getModelForAgent resolves with the provider
RouterStart(r, provider, agentSlug, resume) ==
  /\ rcalls[r].pc = "idle"
  /\ IF r = 1 THEN TRUE ELSE RouterStarted(r - 1)
  /\ LET rc == [IdleRouterCall EXCEPT !.pc = FirstAttempt(provider), !.provider = provider,
                                      !.slug = agentSlug, !.resume = resume,
                                      !.before = RouterDone]
     IN rcalls' = [rcalls EXCEPT ![r] = IF rc.pc = "cli" THEN EnterCli(rc) ELSE rc]
  /\ UNCHANGED <<fallbackEnabled, openRouterKey, lastProvider, ssVars, dbVars, aqVars, prVars, cfVars, bmVars, txVars, envVars>>

\* the configured provider (OpenRouter or Ollama) resolves or throws
RouteReturn(r) ==
  /\ rcalls[r].pc \in {"routeOpenRouter", "routeOllama"}
  /\ \E ok \in Outcomes(rcalls[r].provider) :
       LET rc == Attempt(r, rcalls[r].provider, ok)
       IN IF ok
          THEN /\ rcalls' = [rcalls EXCEPT ![r] = Served(rc, rc.provider)]
               /\ lastProvider' = rc.provider
          ELSE /\ rcalls' = [rcalls EXCEPT ![r] = EnterCli(rc)]
               /\ UNCHANGED lastProvider
  /\ UNCHANGED <<fallbackEnabled, openRouterKey, ssVars, dbVars, aqVars, prVars, cfVars, bmVars, txVars, envVars>>

\* callClaudeCLI has thrown: callClaude returns the fixed string when fallback
\* is disabled and starts the fallback chain otherwise
CliFailed(r, rc) ==
  IF ~IsFallbackEnabled
  THEN /\ rcalls' = [rcalls EXCEPT ![r] =
            [rc EXCEPT !.pc = "done", !.text = FallbackDisabledText]]
       /\ UNCHANGED lastProvider
  ELSE IF FirstFallback = "exhausted"
  THEN /\ rcalls' = [rcalls EXCEPT ![r] = Exhausted(rc)]
       /\ lastProvider' = "error"
  ELSE /\ rcalls' = [rcalls EXCEPT ![r] = [rc EXCEPT !.pc = FirstFallback]]
       /\ UNCHANGED lastProvider

\* the subprocess has finished.  A non-zero exit code throws; output with a
\* session id is stored with setAgentSessionId and saveSessions is awaited;
\* other output is returned
CliReturn(r, outputs) ==
  /\ rcalls[r].pc = "cli"
  /\ \E out \in outputs :
       IF out = "exit"
       THEN /\ CliFailed(r, Attempt(r, "claude", FALSE))
            /\ UNCHANGED ssVars
       ELSE IF out = "session"
       THEN LET store == SetAgentSessionId(sessions, rcalls[r].slug, NewSessionId(r))
            IN /\ sessions' = store
               /\ rcalls' = [rcalls EXCEPT ![r] =
                    [@ EXCEPT !.pc = "save", !.produced = NewSessionId(r),
                              !.snapshot = store]]
               /\ UNCHANGED <<lastProvider, sessionFile>>
       ELSE /\ rcalls' = [rcalls EXCEPT ![r] = ServedByCli(Attempt(r, "claude", TRUE))]
            /\ lastProvider' = "claude"
            /\ UNCHANGED ssVars
  /\ UNCHANGED <<fallbackEnabled, openRouterKey, dbVars, aqVars, prVars, cfVars, bmVars, txVars, envVars>>

\* writeFile of saveSessions resolves, and callClaudeCLI returns, or rejects,
\* and callClaudeCLI throws
SaveReturn(r) ==
  /\ rcalls[r].pc = "save"
  /\ \E ok \in BOOLEAN :
       IF ok
       THEN /\ sessionFile' = StoreFile(rcalls[r].snapshot)
            /\ rcalls' = [rcalls EXCEPT ![r] = ServedByCli(Attempt(r, "claude", TRUE))]
            /\ lastProvider' = "claude"
            /\ UNCHANGED sessions
       ELSE /\ CliFailed(r, Attempt(r, "claude", FALSE))
            /\ UNCHANGED ssVars
  /\ UNCHANGED <<fallbackEnabled, openRouterKey, dbVars, aqVars, prVars, cfVars, bmVars, txVars, envVars>>

\* tryFallbacks: callOpenRouter resolves or throws
FallbackOpenRouterReturn(r) ==
  /\ rcalls[r].pc = "fbOpenRouter"
  /\ \E ok \in Outcomes("openrouter") :
       LET rc == Attempt(r, "openrouter", ok)
       IN IF ok
          THEN /\ rcalls' = [rcalls EXCEPT ![r] = Served(rc, "openrouter")]
               /\ lastProvider' = "openrouter"
          ELSE IF SecondFallback = "exhausted"
          THEN /\ rcalls' = [rcalls EXCEPT ![r] = Exhausted(rc)]
               /\ lastProvider' = "error"
          ELSE /\ rcalls' = [rcalls EXCEPT ![r] = [rc EXCEPT !.pc = SecondFallback]]
               /\ UNCHANGED lastProvider
  /\ UNCHANGED <<fallbackEnabled, openRouterKey, ssVars, dbVars, aqVars, prVars, cfVars, bmVars, txVars, envVars>>

\* tryFallbacks: callOllama resolves or throws
FallbackOllamaReturn(r) ==
  /\ rcalls[r].pc = "fbOllama"
  /\ \E ok \in Outcomes("ollama") :
       LET rc == Attempt(r, "ollama", ok)
       IN IF ok
          THEN /\ rcalls' = [rcalls EXCEPT ![r] = Served(rc, "ollama")]
               /\ lastProvider' = "ollama"
          ELSE /\ rcalls' = [rcalls EXCEPT ![r] = Exhausted(rc)]
               /\ lastProvider' = "error"
  /\ UNCHANGED <<fallbackEnabled, openRouterKey, ssVars, dbVars, aqVars, prVars, cfVars, bmVars, txVars, envVars>>

\* session.json before the relay starts: missing, in the old single-session
\* format (with or without an id), or as an earlier run saved it
InitFiles ==
  {NoFile, LegacyFile(LegacyId), LegacyFile(NullSession),
   StoreFile(SetAgentSessionId(EmptyStore, "research", LegacyId))}

\* FALLBACK_ENABLED and OPENROUTER_API_KEY are read from the environment
InitRouterEnv ==
  /\ fallbackEnabled \in BOOLEAN
  /\ openRouterKey \in BOOLEAN
  /\ lastProvider = "claude"
  /\ rcalls = [r \in RouterCallIds |-> IdleRouterCall]
  /\ sessionFile = NoFile
  /\ sessions = LoadSessions(sessionFile)

InitRouter ==
  InitDb /\ InitQueue /\ InitResponse /\ InitRouterEnv /\ InitConfigDefault
    /\ InitBoardDefault /\ InitTextDefault /\ InitEnvDefault

\* provider routing: every call is a direct message (no agent slug, resume
\* set) and the CLI prints no session id
NextRouter ==
  \/ \E r \in RouterCallIds, provider \in Providers :
       RouterStart(r, provider, Undefined, TRUE)
  \/ \E r \in RouterCallIds : RouteReturn(r)
  \/ \E r \in RouterCallIds : CliReturn(r, CliOutputs \ {"session"})
  \/ \E r \in RouterCallIds : FallbackOpenRouterReturn(r)
  \/ \E r \in RouterCallIds : FallbackOllamaReturn(r)

SpecRouter == InitRouter /\ [][NextRouter]_vars

\* -------------------------------------------------- sessions of the CLI calls
\* the agents are routed to the primary CLI (the model_config default) and
\* fallback is switched off
InitSessionEnv ==
  /\ fallbackEnabled = FALSE
  /\ openRouterKey = FALSE
  /\ lastProvider = "claude"
  /\ rcalls = [r \in RouterCallIds |-> IdleRouterCall]
  /\ sessionFile \in InitFiles
  /\ sessions = LoadSessions(sessionFile)

InitSession ==
  InitDb /\ InitQueue /\ InitResponse /\ InitSessionEnv /\ InitConfigDefault
    /\ InitBoardDefault /\ InitTextDefault /\ InitEnvDefault

\* the options the callers of callClaude pass: the message handlers set resume
\* (the text handler with the agent of the topic), the board meeting passes none
CallOptions ==
  [agentSlug : SlugInputs, resume : {TRUE}] \cup {[agentSlug |-> Undefined, resume |-> FALSE]}

NextSession ==
  \/ \E r \in RouterCallIds, o \in CallOptions :
       RouterStart(r, "claude", o.agentSlug, o.resume)
  \/ \E r \in RouterCallIds : CliReturn(r, CliOutputs)
  \/ \E r \in RouterCallIds : SaveReturn(r)

SpecSession == InitSession /\ [][NextSession]_vars

\* ------------------------------------- sessions of calls with fallback on
\* fallback is switched on and the agents are routed to any of the providers
InitStatelessEnv ==
  /\ fallbackEnabled = TRUE
  /\ openRouterKey \in BOOLEAN
  /\ lastProvider = "claude"
  /\ rcalls = [r \in RouterCallIds |-> IdleRouterCall]
  /\ sessionFile \in InitFiles
  /\ sessions = LoadSessions(sessionFile)

InitStateless ==
  InitDb /\ InitQueue /\ InitResponse /\ InitStatelessEnv /\ InitConfigDefault
    /\ InitBoardDefault /\ InitTextDefault /\ InitEnvDefault

StatelessCallIds == 1..MaxStatelessCalls

NextStateless ==
  \/ \E r \in StatelessCallIds, provider \in Providers, o \in CallOptions :
       RouterStart(r, provider, o.agentSlug, o.resume)
  \/ \E r \in StatelessCallIds : RouteReturn(r)
  \/ \E r \in StatelessCallIds : CliReturn(r, CliOutputs)
  \/ \E r \in StatelessCallIds : SaveReturn(r)
  \/ \E r \in StatelessCallIds : FallbackOpenRouterReturn(r)
  \/ \E r \in StatelessCallIds : FallbackOllamaReturn(r)

SpecStateless == InitStateless /\ [][NextStateless]_vars

\* ------------------------------------------------ model assignment: actions
ConfigStarted(c) == ccalls[c].pc # "idle"
ConfigDone == {c \in ConfigCallIds : ccalls[c].pc = "done"}

StartConfigCall(c, op, agentSlug) ==
  [IdleConfigCall EXCEPT !.op = op, !.agent = agentSlug,
                         !.before = IF op = "get" THEN ConfigDone ELSE {}]

\* getModelForAgent(agentSlug) up to its await: with a fresh, non-empty cache
\* it returns from the cache; refreshConfigCache returns at once without a
\* client and sends the select otherwise
GetModelStart(c, agentSlug) ==
  /\ ccalls[c].pc = "idle"
  /\ IF c = 1 THEN TRUE ELSE ConfigStarted(c - 1)
  /\ LET cc == StartConfigCall(c, "get", agentSlug)
     IN ccalls' = [ccalls EXCEPT ![c] =
          IF NeedsRefresh /\ dbConfigured
          THEN [cc EXCEPT !.pc = "select", !.refreshed = TRUE]
          ELSE [cc EXCEPT !.pc = "done", !.ret = CacheGet(configCache, agentSlug)]]
  /\ UNCHANGED <<modelTable, configCache, cacheFresh, bmVars, dbVars, aqVars, prVars, rtVars, txVars, envVars>>

\* the persistence layer answers the select with the rows it holds now, or
\* with an error
SelectServed(c) ==
  /\ ccalls[c].pc = "select"
  /\ \E ok \in BOOLEAN :
       ccalls' = [ccalls EXCEPT ![c] =
         [@ EXCEPT !.pc = "fetched", !.fetched = ok, !.fault = ~ok,
                   !.data = IF ok THEN modelTable ELSE EmptyTable]]
  /\ UNCHANGED <<modelTable, configCache, cacheFresh, bmVars, dbVars, aqVars, prVars, rtVars, txVars, envVars>>

\* refreshConfigCache receives the answer: rows replace the cache and set
\* lastFetch, an error leaves both; getModelForAgent returns from the cache
RefreshReturn(c) ==
  /\ ccalls[c].pc = "fetched"
  /\ LET cache == IF ccalls[c].fetched THEN ccalls[c].data ELSE configCache
     IN /\ configCache' = cache
        /\ cacheFresh' = IF ccalls[c].fetched THEN TRUE ELSE cacheFresh
        /\ ccalls' = [ccalls EXCEPT ![c] =
             [@ EXCEPT !.pc = "done", !.data = EmptyTable,
                       !.held = IF ccalls[c].fetched THEN NoConfig
                                ELSE configCache[ccalls[c].agent],
                       !.noRow = ccalls[c].fetched /\ ccalls[c].data[ccalls[c].agent] = NoConfig,
                       !.ret = CacheGet(cache, ccalls[c].agent)]]
  /\ UNCHANGED <<modelTable, bmVars, dbVars, aqVars, prVars, rtVars, txVars, envVars>>

\* setModelForAgent(agent, provider, model) up to its await: it throws
\* without a client and sends the upsert otherwise
SetModelStart(c, agentSlug, config) ==
  /\ ccalls[c].pc = "idle"
  /\ IF c = 1 THEN TRUE ELSE ConfigStarted(c - 1)
  /\ LET cc == [StartConfigCall(c, "set", agentSlug) EXCEPT !.config = config]
     IN ccalls' = [ccalls EXCEPT ![c] =
          IF dbConfigured THEN [cc EXCEPT !.pc = "upsert"]
          ELSE [cc EXCEPT !.pc = "done", !.threw = TRUE]]
  /\ UNCHANGED <<modelTable, configCache, cacheFresh, bmVars, dbVars, aqVars, prVars, rtVars, txVars, envVars>>

\* the upsert is applied and setModelForAgent sets lastFetch = 0, or the
\* upsert is rejected and setModelForAgent throws
UpsertReturn(c) ==
  /\ ccalls[c].pc = "upsert"
  /\ \E ok \in BOOLEAN :
       IF ok
       THEN /\ modelTable' = [modelTable EXCEPT ![ccalls[c].agent] = ccalls[c].config]
            /\ cacheFresh' = FALSE
            /\ ccalls' = [ccalls EXCEPT ![c] = [@ EXCEPT !.pc = "done"]]
       ELSE /\ ccalls' = [ccalls EXCEPT ![c] =
                 [@ EXCEPT !.pc = "done", !.threw = TRUE, !.fault = TRUE]]
            /\ UNCHANGED <<modelTable, cacheFresh>>
  /\ UNCHANGED <<configCache, bmVars, dbVars, aqVars, prVars, rtVars, txVars, envVars>>

\* more than CACHE_TTL passes since lastFetch
TtlExpires ==
  /\ cacheFresh
  /\ cacheFresh' = FALSE
  /\ UNCHANGED <<modelTable, configCache, ccalls, bmVars, dbVars, aqVars, prVars, rtVars, txVars, envVars>>

\* model_config before the relay starts: empty, or with a row for "general"
InitTables == {EmptyTable, [EmptyTable EXCEPT !["general"] = StoredConfig]}

InitConfigEnv ==
  /\ modelTable \in InitTables
  /\ configCache = EmptyTable
  /\ cacheFresh = FALSE
  /\ ccalls = [c \in ConfigCallIds |-> IdleConfigCall]

InitConfig ==
  InitDb /\ InitQueue /\ InitResponse /\ InitRouterDefault /\ InitConfigEnv
    /\ InitBoardDefault /\ InitTextDefault /\ InitEnvDefault

NextConfig ==
  \/ \E c \in ConfigCallIds, agentSlug \in AgentSlugs : GetModelStart(c, agentSlug)
  \/ \E c \in ConfigCallIds : SelectServed(c)
  \/ \E c \in ConfigCallIds : RefreshReturn(c)
  \/ \E c \in ConfigCallIds, agentSlug \in AgentSlugs, config \in ConfigInputs :
       SetModelStart(c, agentSlug, config)
  \/ \E c \in ConfigCallIds : UpsertReturn(c)
  \/ TtlExpires

SpecConfig == InitConfig /\ [][NextConfig]_vars

\* --------------------------------------------------- board meeting: actions
\* runBoardMeeting up to Promise.all: one callAgentForMeeting per specialist,
\* each awaiting its callClaude
MeetingStart ==
  /\ meeting.pc = "idle"
  /\ meeting' = [meeting EXCEPT
       !.pc = "fanout",
       !.slots = [i \in DOMAIN GetSpecialistAgents |-> PendingResponse],
       !.dispatched = GetSpecialistAgents]
  /\ UNCHANGED <<dbVars, aqVars, prVars, rtVars, cfVars, txVars, envVars>>

\* Promise.all has resolved: runBoardMeeting calls synthesizeResponses, which
\* builds the prompt and awaits callClaude
\* what await Promise.all(responsePromises) gives: the values in the order of
\* the promises
PromiseAllAlt(m) ==
  [k \in DOMAIN m.completed |-> m.slots[m.completed[k]]]
PromiseAll(m) == m.slots

StartSynthesis(m) ==
  [m EXCEPT !.pc = "synth", !.responses = PromiseAll(m),
            !.synthCalls = @ + 1,
            !.pendingAtSynth = {i \in DOMAIN m.slots : m.slots[i] = PendingResponse},
            !.persona = GetGeneralAgent,
            !.summaries = AgentSummaries(m.slots)]

\* the callClaude of specialist i resolves or throws; callAgentForMeeting
\* returns its AgentResponse
SpecialistReturn(i) ==
  /\ meeting.pc = "fanout"
  /\ i \in DOMAIN meeting.slots
  /\ meeting.slots[i] = PendingResponse
  /\ \E ok \in BOOLEAN, errorMsg \in ErrorMessages :
       /\ ok => errorMsg = "timeout"
       /\ LET m == [meeting EXCEPT
                      !.slots[i] = AgentResponse(meeting.dispatched[i], ok, errorMsg),
                      !.failed = IF ok THEN @ ELSE @ \cup {i},
                      !.completed = Append(@, i)]
          IN meeting' = IF AllSettled(m.slots) THEN StartSynthesis(m) ELSE m
  /\ UNCHANGED <<dbVars, aqVars, prVars, rtVars, cfVars, txVars, envVars>>

\* the callClaude of synthesizeResponses resolves or throws; runBoardMeeting
\* returns the BoardMeetingResult
SynthesisReturn ==
  /\ meeting.pc = "synth"
  /\ \E ok \in BOOLEAN :
       meeting' = [meeting EXCEPT !.pc = "done", !.synthesis = SynthesisOf(ok),
                                  !.synthFailed = ~ok, !.returned = TRUE]
  /\ UNCHANGED <<dbVars, aqVars, prVars, rtVars, cfVars, txVars, envVars>>

InitBoard ==
  InitDb /\ InitQueue /\ InitResponse /\ InitRouterDefault /\ InitConfigDefault
    /\ InitBoardDefault /\ InitTextDefault /\ InitEnvDefault

NextBoard ==
  \/ MeetingStart
  \/ \E i \in DOMAIN GetSpecialistAgents : SpecialistReturn(i)
  \/ SynthesisReturn

SpecBoard == InitBoard /\ [][NextBoard]_vars

\* every model call of a meeting eventually resolves or throws
BoardFairness ==
  /\ \A i \in DOMAIN GetSpecialistAgents : WF_vars(SpecialistReturn(i))
  /\ WF_vars(SynthesisReturn)

SpecBoardLive == InitBoard /\ [][NextBoard]_vars /\ BoardFairness

\* ------------------------------------------ text-level response processing
IntentPc(intent) == IF intent.kind = "done" THEN "select" ELSE "insert"

\* processIntents(afterActions) up to its first await, or to its return
BeginIntents(t) ==
  Only({IF todo = <<>>
        THEN [t EXCEPT !.pc = "done", !.clean = t.afterActions,
                       !.ret = Trim(t.afterActions)]
        ELSE [t EXCEPT !.pc = IntentPc(Head(todo)), !.clean = t.afterActions,
                       !.todo = todo] :
        todo \in {IntentsOf(t.afterActions)}})

\* the loop of processResponse over the actions, then processIntents
AfterQueue(t) ==
  IF t.next > Len(t.actions) THEN BeginIntents(t) ELSE [t EXCEPT !.pc = "queue"]

\* processIntents after the persistence call of its current directive
AfterIntent(t, stored) ==
  LET clean == CleanAfter(t.clean, Head(t.todo), stored)
      rest == Tail(t.todo)
      o == Append(t.outcomes, [kind |-> Head(t.todo).kind, stored |-> stored])
  IN IF rest = <<>>
     THEN [t EXCEPT !.pc = "done", !.clean = clean, !.todo = rest, !.found = 0,
                    !.outcomes = o, !.ret = Trim(clean)]
     ELSE [t EXCEPT !.pc = IntentPc(Head(rest)), !.clean = clean, !.todo = rest,
                    !.found = 0, !.outcomes = o]

\* processResponse(ctx, response) up to its first await
TextStart(response) ==
  /\ tcall.pc = "idle"
  /\ \E e \in {ExtractActionsOf(response)} :
       \E t \in {[IdleText EXCEPT !.response = response,
                                  !.afterActions = e.cleaned,
                                  !.actions = e.actions]} :
         tcall' = AfterQueue(t)
  /\ UNCHANGED <<textDb, dbVars, aqVars, prVars, rtVars, cfVars, bmVars, envVars>>

\* queueAction(action) resolves: null without a client or when the insert fails
TextQueueReturn(ok) ==
  /\ tcall.pc = "queue"
  /\ ok => dbConfigured
  /\ textDb' = IF ok
               THEN [textDb EXCEPT !.actions = Append(@, ActionRow(tcall.actions[tcall.next]))]
               ELSE textDb
  /\ tcall' = IF ok THEN [tcall EXCEPT !.pc = "reply"]
              ELSE AfterQueue([tcall EXCEPT !.next = @ + 1])
  /\ UNCHANGED <<dbVars, aqVars, prVars, rtVars, cfVars, bmVars, envVars>>

\* ctx.reply with the Approve / Deny keyboard resolves
TextReplyReturn ==
  /\ tcall.pc = "reply"
  /\ tcall' = AfterQueue([tcall EXCEPT !.next = @ + 1])
  /\ UNCHANGED <<textDb, dbVars, aqVars, prVars, rtVars, cfVars, bmVars, envVars>>

\* saveFact / saveGoal resolves: nothing is stored without a client or when
\* the insert returns an error
TextInsertReturn(ok) ==
  /\ tcall.pc = "insert"
  /\ ok => dbConfigured
  /\ textDb' = IF ok
               THEN [textDb EXCEPT !.memory = Append(@, MemoryRow(Head(tcall.todo)))]
               ELSE textDb
  /\ tcall' = AfterIntent(tcall, ok)
  /\ UNCHANGED <<dbVars, aqVars, prVars, rtVars, cfVars, bmVars, envVars>>

\* the select of completeGoal resolves: with row i, or without data (no
\* client, an error, no matching row) and completeGoal returns
TextSelectReturn(i) ==
  /\ tcall.pc = "select"
  /\ i # 0 => dbConfigured /\ i \in Selected(textDb.memory, Head(tcall.todo).content)
  /\ tcall' = IF i = 0 THEN AfterIntent(tcall, FALSE)
              ELSE [tcall EXCEPT !.pc = "update", !.found = i]
  /\ UNCHANGED <<textDb, dbVars, aqVars, prVars, rtVars, cfVars, bmVars, envVars>>

\* the update of completeGoal resolves
TextUpdateReturn(ok) ==
  /\ tcall.pc = "update"
  /\ textDb' = IF ok THEN [textDb EXCEPT !.memory = CompleteRow(@, tcall.found)]
               ELSE textDb
  /\ tcall' = AfterIntent(tcall, ok)
  /\ UNCHANGED <<dbVars, aqVars, prVars, rtVars, cfVars, bmVars, envVars>>

InitText ==
  /\ InitDb /\ InitQueue /\ InitResponse /\ InitRouterDefault /\ InitConfigDefault
  /\ InitBoardDefault /\ InitTextDefault /\ InitEnvDefault

NextText ==
  \/ \E response \in TextInputs : TextStart(response)
  \/ \E ok \in BOOLEAN : TextQueueReturn(ok)
  \/ TextReplyReturn
  \/ \E ok \in BOOLEAN : TextInsertReturn(ok)
  \/ \E i \in 0..(Len(textDb.memory)) : TextSelectReturn(i)
  \/ \E ok \in BOOLEAN : TextUpdateReturn(ok)

SpecText == InitText /\ [][NextText]_vars

\* ------------------------------------------------------ topic registry: actions
\* setAgentTopicId(slug, topicId)
SetAgentTopicId(slug, topicId) ==
  /\ registry.sets < MaxTopicSets
  /\ registry' = [registry EXCEPT !.topicId[slug] = topicId,
                                   !.topicToAgent[topicId] = slug,
                                   !.sets = @ + 1]
  /\ UNCHANGED <<dbVars, aqVars, prVars, rtVars, cfVars, bmVars, txVars, lkVars, gtVars>>

InitRegistry ==
  /\ InitDb /\ InitQueue /\ InitResponse /\ InitRouterDefault /\ InitConfigDefault
  /\ InitBoardDefault /\ InitTextDefault
  /\ \E mapping \in InitialMappings : registry = InitAgents(mapping)
  /\ lock = IdleLock
  /\ gate = IdleGate

NextRegistry ==
  \E slug \in RegistrySlugs, topicId \in TopicIds : SetAgentTopicId(slug, topicId)

SpecRegistry == InitRegistry /\ [][NextRegistry]_vars

\* ----------------------------------------------------------- lock file: actions
\* process.exit: the "exit" handler removes LOCK_FILE
Exit(p, got) ==
  lock' = [lock EXCEPT !.file = NoLock, !.procs[p].pc = "exited", !.procs[p].got = got]

\* a relay process starts and acquireLock reads LOCK_FILE
ProcStart(p) ==
  /\ lock.procs[p].pc = "idle"
  /\ IF p = 1 THEN TRUE ELSE lock.procs[p - 1].pc # "idle"
  /\ lock' = [lock EXCEPT !.procs[p].pc = "read"]
  /\ UNCHANGED <<dbVars, aqVars, prVars, rtVars, cfVars, bmVars, txVars, rgVars, gtVars>>

\* readFile resolves: with the pid of a process that exists acquireLock
\* returns false and the process exits; otherwise it goes on to write its pid
LockReadReturn(p) ==
  /\ lock.procs[p].pc = "read"
  /\ IF lock.file # NoLock /\ ProcessExists(lock.file)
     THEN Exit(p, "false")
     ELSE lock' = [lock EXCEPT !.procs[p].pc = "write", !.procs[p].seen = lock.file]
  /\ UNCHANGED <<dbVars, aqVars, prVars, rtVars, cfVars, bmVars, txVars, rgVars, gtVars>>

\* writeFile resolves and acquireLock returns true, or rejects and it returns
\* false
LockWriteReturn(p, ok) ==
  /\ lock.procs[p].pc = "write"
  /\ IF ok
     THEN lock' = [lock EXCEPT !.file = p, !.procs[p].pc = "running",
                               !.procs[p].got = "true"]
     ELSE Exit(p, "false")
  /\ UNCHANGED <<dbVars, aqVars, prVars, rtVars, cfVars, bmVars, txVars, rgVars, gtVars>>

\* SIGINT / SIGTERM: releaseLock and process.exit(0)
Shutdown(p) ==
  /\ lock.procs[p].pc = "running"
  /\ Exit(p, lock.procs[p].got)
  /\ UNCHANGED <<dbVars, aqVars, prVars, rtVars, cfVars, bmVars, txVars, rgVars, gtVars>>

\* the process is killed or the machine goes down: no handler runs
Kill(p) ==
  /\ lock.procs[p].pc = "running"
  /\ lock' = [lock EXCEPT !.procs[p].pc = "killed"]
  /\ UNCHANGED <<dbVars, aqVars, prVars, rtVars, cfVars, bmVars, txVars, rgVars, gtVars>>

InitLock ==
  /\ InitDb /\ InitQueue /\ InitResponse /\ InitRouterDefault /\ InitConfigDefault
  /\ InitBoardDefault /\ InitTextDefault /\ InitEnvDefault

NextLock ==
  \/ \E p \in Pids : ProcStart(p)
  \/ \E p \in Pids : LockReadReturn(p)
  \/ \E p \in Pids, ok \in BOOLEAN : LockWriteReturn(p, ok)
  \/ \E p \in Pids : Shutdown(p)
  \/ \E p \in Pids : Kill(p)

SpecLock == InitLock /\ [][NextLock]_vars

\* -------------------------------------------------- authorization gate: actions
\* an update arrives: the middleware registered first answers "This bot is
\* private." and returns, or calls next() and the handler of the update runs
Update(userId, kind, queues) ==
  /\ Len(gate.updates) < MaxUpdates
  /\ gate' = [gate EXCEPT !.updates =
       Append(@, IF Rejects(userId)
                 THEN [user |-> userId, kind |-> kind, reached |-> FALSE, calls |-> {}]
                 ELSE [user |-> userId, kind |-> kind, reached |-> TRUE,
                       calls |-> HandlerCalls(kind, queues)])]
  /\ UNCHANGED <<dbVars, aqVars, prVars, rtVars, cfVars, bmVars, txVars, rgVars, lkVars>>

\* TELEGRAM_USER_ID is read from the environment
InitGate ==
  /\ InitDb /\ InitQueue /\ InitResponse /\ InitRouterDefault /\ InitConfigDefault
  /\ InitBoardDefault /\ InitTextDefault
  /\ registry = IdleRegistry
  /\ lock = IdleLock
  /\ \E allowed \in {NoUser, Owner} : gate = [IdleGate EXCEPT !.allowed = allowed]

NextGate ==
  \E userId \in UserIds, kind \in UpdateKinds, queues \in BOOLEAN :
    Update(userId, kind, queues)

SpecGate == InitGate /\ [][NextGate]_vars

\* ------------------------------------------------- action queue: properties
Returned(c) == calls[c].pc = "done"

\* c2 was called after c1 had returned
Sequential(c1, c2) == Started(c2) /\ c1 \in calls[c2].before
Concurrent(c1, c2) == Started(c1) /\ Started(c2) /\ ~Sequential(c1, c2) /\ ~Sequential(c2, c1)

\* no invocation outside S is about action id
OnlyCallsOn(id, S) == \A c \in CallIds \ S : ~Started(c) \/ calls[c].id # id

\* C1: two concurrent approveAction calls on the same pending action, with the
\* persistence backend answering every request, invoke the executor exactly
\* once and exactly one of them returns success: true.
C1_ExactlyOneExecution ==
  \A c1, c2 \in CallIds :
    ( /\ c1 # c2
      /\ calls[c1].op = "approve" /\ calls[c2].op = "approve"
      /\ calls[c1].id = calls[c2].id
      /\ calls[c1].start = "pending" /\ calls[c2].start = "pending"
      /\ Concurrent(c1, c2)
      /\ Returned(c1) /\ Returned(c2)
      /\ ~calls[c1].fault /\ ~calls[c2].fault
      /\ OnlyCallsOn(calls[c1].id, {c1, c2}) )
    => /\ execCount[calls[c1].id] = 1
       /\ calls[c1].ret.success # calls[c2].ret.success

\* C2: of two approveAction / denyAction calls made one after the other on an
\* action, the first of which succeeded, the second changes nothing and returns
\* success: false with "Action already <current status>"; after a successful
\* approveAction a second approveAction returns "Action already executed" and
\* the executor has run once.
C2_SecondCallRejected ==
  \A c1, c2 \in CallIds :
    ( /\ c1 # c2
      /\ Sequential(c1, c2)
      /\ calls[c1].id = calls[c2].id
      /\ calls[c1].ret.success
      /\ Returned(c2) /\ ~calls[c2].fault
      /\ OnlyCallsOn(calls[c1].id, {c1, c2}) )
    => /\ ~calls[c2].ret.success
       /\ ~calls[c2].wrote
       /\ calls[c2].ret.description = AlreadyDesc(calls[c2].seen)
       /\ (calls[c1].op = "approve" /\ calls[c2].op = "approve")
            => /\ calls[c2].ret.description = "Action already executed"
               /\ execCount[calls[c1].id] = 1

LegalTransitions ==
  {<<"pending", "approved">>, <<"approved", "executed">>, <<"pending", "denied">>}

\* C3: the stored status of an action only changes along pending->approved,
\* approved->executed or pending->denied (so never out of denied or executed).
C3_LegalTransitions ==
  [][\A i \in ActionIds :
       (actions[i].status # "none" /\ actions'[i].status # actions[i].status)
         => <<actions[i].status, actions'[i].status>> \in LegalTransitions]_vars

\* C4: a denied action is never executed: no denyAction call has returned
\* success: true for an action the executor was invoked for.
C4_DeniedNeverExecuted ==
  \A c \in CallIds :
    (calls[c].op = "deny" /\ Returned(c) /\ calls[c].ret.success)
      => execCount[calls[c].id] = 0

\* C5: when approveAction returns success: true the stored action has status
\* executed and executed_at set.
C5_SuccessMeansExecuted ==
  \A c \in CallIds :
    (calls[c].op = "approve" /\ Returned(c) /\ calls[c].ret.success)
      => calls[c].seen = "executed" /\ calls[c].seenAt # Null

FailureDescriptions ==
  {"Database unavailable", "Action not found", "Failed to approve", "Failed to deny"}
    \cup {AlreadyDesc(s) : s \in {"approved", "denied", "executed"}}

\* C6: an approveAction / denyAction call that returns success: false has
\* changed no stored row and has not invoked the executor, and its description
\* is "Database unavailable" (no client), "Action not found" (no such row),
\* "Action already <status>" (row not pending) or "Failed to approve" /
\* "Failed to deny" (status update rejected).
C6_FailureLeavesStateUnchanged ==
  \A c \in CallIds :
    (Returned(c) /\ ~calls[c].ret.success) =>
      LET d == calls[c].ret.description IN
      /\ ~calls[c].wrote
      /\ ~calls[c].ran
      /\ d \in FailureDescriptions
      /\ ~dbConfigured <=> d = "Database unavailable"
      /\ (dbConfigured /\ calls[c].id = UnknownId) => d = "Action not found"
      /\ d = "Action not found" => (calls[c].id = UnknownId \/ calls[c].fault)
      /\ d \in {"Failed to approve", "Failed to deny"} <=> (calls[c].action.status = "pending")
      /\ d = "Failed to approve" => calls[c].op = "approve" /\ calls[c].fault
      /\ d = "Failed to deny" => calls[c].op = "deny" /\ calls[c].fault
      /\ (\E s \in {"approved", "denied", "executed"} : d = AlreadyDesc(s)) => calls[c].start # "none"

\* a status update was rejected and the action is still pending
C6_Witness ==
  \E c \in CallIds :
    /\ Returned(c) /\ ~calls[c].ret.success
    /\ calls[c].ret.description = "Failed to approve"
    /\ actions[calls[c].id].status = "pending"

\* C8: an action a crash left approved (between the approved write and the
\* executed write of an approveAction) stays approved and is not executed
\* again: every approveAction called afterwards returns success: false, with
\* "Action already approved" when it could read the row, and does not invoke
\* the executor; with a single approveAction before the crash the executor ran
\* at most once.
C8_NoReExecutionAfterCrash ==
  \A i \in ActionIds :
    stuckAt[i] # -1 =>
      /\ actions[i].status = "approved"
      /\ execCount[i] = stuckAt[i]
      /\ \A c \in CallIds :
           (calls[c].id = i /\ calls[c].stuck /\ calls[c].op = "approve" /\ Returned(c))
             => /\ ~calls[c].ret.success
                /\ ~calls[c].ran
                /\ ~calls[c].fault => calls[c].ret.description = "Action already approved"
      /\ Cardinality({c \in CallIds : Started(c) /\ calls[c].id = i
                        /\ calls[c].op = "approve" /\ ~calls[c].stuck}) <= 1
           => execCount[i] <= 1

\* after such a crash a later approveAction was rejected with the current status
C8_Witness ==
  \E i \in ActionIds :
    /\ stuckAt[i] = 1
    /\ \E c \in CallIds :
         /\ calls[c].id = i /\ calls[c].stuck /\ calls[c].op = "approve" /\ Returned(c)
         /\ calls[c].ret.description = "Action already approved"

\* ----------------------------------------- response processing: properties
Rows == {i \in ActionIds : actions[i].status # "none"}
NonNullId(id) == id # NullId
IsProse(token) == token \in ProseTokens
Prefix(s, t) == Len(s) <= Len(t) /\ s = SubSeq(t, 1, Len(s))

\* C9: queueAction stores a row only with status pending and returns its id;
\* without a client or when the insert fails it returns null and stores
\* nothing; processResponse sends the Approve / Deny keyboard exactly for the
\* actions that got an id, and returns the text without the tags whatever
\* queueAction returned.
C9_NullQueueResultIsSkipped ==
  LET e == ExtractActions(pr.response)
      ids == SelectSeq(pr.queued, NonNullId)
  IN /\ \A i \in Rows : actions[i].status = "pending"
     /\ Rows = 1..(nextId - 1)
     /\ ~dbConfigured => Rows = {}
     /\ Len(pr.queued) <= Len(e.actions)
     /\ \A k \in 1..Len(pr.queued) :
          pr.queued[k] # NullId =>
            /\ pr.queued[k] \in Rows
            /\ actions[pr.queued[k]].type = e.actions[k].type
     /\ {ids[k] : k \in 1..Len(ids)} = pr.first..(nextId - 1)
     /\ buttons \subseteq Rows
     /\ Prefix(pr.sent, ids)
     /\ pr.pc = "done" =>
          /\ Len(pr.queued) = Len(e.actions)
          /\ pr.sent = ids
          /\ pr.ret = SelectSeq(pr.response, IsProse)

\* a response with two tags, one of which could not be queued
C9_Witness ==
  /\ pr.pc = "done"
  /\ dbConfigured
  /\ \E k \in 1..Len(pr.queued) : pr.queued[k] = NullId
  /\ Len(pr.sent) = 1
  /\ pr.ret # <<>>

\* --------------------------------------------- provider routing: properties
\* the fixed order: the configured provider when it is not the primary one,
\* the primary CLI, the cloud gateway (skipped without an API key), the local
\* server
ExpectedOrder(provider) ==
  (IF provider = "claude" THEN <<>> ELSE <<provider>>)
    \o <<"claude">>
    \o (IF IsOpenRouterAvailable THEN <<"openrouter">> ELSE <<>>)
    \o <<"ollama">>

\* C10: with fallback enabled the providers a callClaude call attempts are, in
\* order, an initial part of the fixed order, a provider is attempted only
\* after every earlier attempt has failed, and the provider the call records
\* is the one of the first successful attempt ("error" when all have failed).
C10_FallbackOrder ==
  fallbackEnabled =>
    \A r \in RouterCallIds :
      LET rc == rcalls[r]
          n == Len(rc.attempts)
          exp == ExpectedOrder(rc.provider)
      IN /\ n <= Len(exp)
         /\ \A k \in 1..n : rc.attempts[k].provider = exp[k]
         /\ \A k \in 1..(n - 1) : ~rc.attempts[k].ok
         /\ rc.pc \notin {"idle", "done"} => \A k \in 1..n : ~rc.attempts[k].ok
         /\ rc.pc = "done" =>
              /\ n >= 1
              /\ IF rc.attempts[n].ok
                 THEN /\ rc.set = rc.attempts[n].provider
                      /\ rc.text = ProviderText(rc.attempts[n].provider)
                 ELSE /\ n = Len(exp)
                      /\ rc.set = "error"

\* the configured local server, the CLI and the gateway failed, then the local
\* server answered
C10_Witness ==
  \E r \in RouterCallIds :
    /\ fallbackEnabled
    /\ rcalls[r].pc = "done"
    /\ Len(rcalls[r].attempts) = 4
    /\ rcalls[r].attempts[4].ok
    /\ rcalls[r].set = "ollama"

\* the providers a call has attempted, as the names the messages use, in the
\* fixed order
DisplayOrder == <<"claude", "openrouter", "ollama">>
DisplayName(provider) ==
  IF provider = "claude" THEN "Claude"
  ELSE IF provider = "openrouter" THEN "OpenRouter" ELSE "Ollama"
AttemptedProviders(rc) == {rc.attempts[k].provider : k \in 1..Len(rc.attempts)}
AttemptedNames(rc) ==
  LET Pick(i) == IF DisplayOrder[i] \in AttemptedProviders(rc)
                 THEN <<DisplayName(DisplayOrder[i])>> ELSE <<>>
  IN Pick(1) \o Pick(2) \o Pick(3)
AllFailed(rc) ==
  /\ rc.pc = "done"
  /\ \A k \in 1..Len(rc.attempts) : ~rc.attempts[k].ok
PrimaryFailed(rc) ==
  \E k \in 1..Len(rc.attempts) :
    rc.attempts[k].provider = "claude" /\ ~rc.attempts[k].ok

\* C11: with fallback disabled, a call whose primary CLI attempt failed makes
\* no further attempt (neither the cloud gateway nor the local server follows
\* the primary), and it returns the fixed "temporarily unavailable" string.
C11_FallbackDisabledReturnsFixedText ==
  ~fallbackEnabled =>
    \A r \in RouterCallIds :
      LET rc == rcalls[r]
          n == Len(rc.attempts)
      IN /\ rc.pc \notin {"fbOpenRouter", "fbOllama"}
         /\ PrimaryFailed(rc) =>
              /\ rc.attempts[n].provider = "claude"
              /\ rc.pc = "done"
              /\ rc.text = FallbackDisabledText

\* the agent is configured for the local server; it and the primary fail
C11_Witness ==
  \E r \in RouterCallIds :
    /\ ~fallbackEnabled
    /\ rcalls[r].pc = "done"
    /\ rcalls[r].provider = "ollama"
    /\ Len(rcalls[r].attempts) = 2
    /\ PrimaryFailed(rcalls[r])
    /\ rcalls[r].text = FallbackDisabledText

\* C12: with fallback enabled, a call in which every attempted provider failed
\* is tagged "error" and its message lists exactly the providers the call
\* attempted.
C12_ExhaustionEnumeratesAttempted ==
  fallbackEnabled =>
    \A r \in RouterCallIds :
      AllFailed(rcalls[r]) =>
        /\ rcalls[r].set = "error"
        /\ rcalls[r].text = AllUnavailableText(JoinNames(AttemptedNames(rcalls[r])))

\* the step in which call r stores a session id with setAgentSessionId
SetsSession(r) == rcalls[r].pc = "cli" /\ rcalls'[r].pc = "save"

\* C13: a setAgentSessionId for one slug leaves the session id readable for
\* every other slug unchanged.
C13_SessionsScopedPerSlug ==
  [][\A r \in RouterCallIds :
       SetsSession(r) =>
         \A b \in AgentSlugs \ {SessionKey(rcalls[r].slug)} :
           GetAgentSessionId(b)' = GetAgentSessionId(b)]_vars

\* C14: whenever the store has an entry for "general", the legacy sessionId
\* equals it; a read of the default key without an entry returns the legacy
\* sessionId; and a write for another slug leaves the legacy sessionId as it was.
C14_LegacyMirrorsGeneral ==
  /\ [](/\ sessions.agents["general"] # Absent =>
             sessions.sessionId = sessions.agents["general"]
        /\ sessions.agents["general"] = Absent =>
             /\ GetAgentSessionId("general") = sessions.sessionId
             /\ GetAgentSessionId(Undefined) = sessions.sessionId)
  /\ [][\A r \in RouterCallIds :
          (SetsSession(r) /\ SessionKey(rcalls[r].slug) # "general") =>
            sessions'.sessionId = sessions.sessionId]_vars

\* a call for "research" and a later call without a slug have both stored
\* their session ids
C14_Witness ==
  \E r1, r2 \in RouterCallIds :
    /\ rcalls[r1].slug = "research"
    /\ rcalls[r2].slug = Undefined
    /\ rcalls[r1].pc = "done" /\ rcalls[r2].pc = "done"
    /\ rcalls[r1].produced # NullSession
    /\ rcalls[r2].produced # NullSession
    /\ sessions.agents["research"] = rcalls[r1].produced
    /\ sessions.agents["general"] = rcalls[r2].produced
    /\ sessions.sessionId = rcalls[r2].produced

\* call r2 was started while call r1 for the same agent was in flight, both
\* with resume set, and both have stored and saved a session id
ConcurrentSameSlug(r1, r2) ==
  /\ r1 < r2
  /\ rcalls[r1].pc = "done" /\ rcalls[r2].pc = "done"
  /\ r1 \notin rcalls[r2].before
  /\ SessionKey(rcalls[r1].slug) = SessionKey(rcalls[r2].slug)
  /\ rcalls[r1].resume /\ rcalls[r2].resume
  /\ rcalls[r1].set = "claude" /\ rcalls[r2].set = "claude"
  /\ rcalls[r1].produced # NullSession
  /\ rcalls[r2].produced # NullSession

\* C15: of two concurrent calls for the same agent, the one that reads the
\* session id later resumes from the id the other one stored, and the id
\* stored in the end is the one it produced.
C15_SessionUpdatesSerialized ==
  \A r1, r2 \in RouterCallIds :
    ConcurrentSameSlug(r1, r2) =>
      /\ rcalls[r2].passed = rcalls[r1].produced
      /\ sessions.agents[SessionKey(rcalls[r2].slug)] = rcalls[r2].produced

\* get g is the first getModelForAgent started after the successful
\* setModelForAgent s had returned, it asks for the agent s has assigned, no
\* other call assigns that agent, and persistence answered g's fetch
NextGetAfterSet(g, s) ==
  /\ ccalls[g].op = "get" /\ ccalls[g].pc = "done"
  /\ ccalls[s].op = "set" /\ ccalls[s].pc = "done" /\ ~ccalls[s].threw
  /\ s \in ccalls[g].before
  /\ ccalls[g].agent = ccalls[s].agent
  /\ ~ccalls[g].fault
  /\ \A o \in ConfigCallIds \ {s} :
       ~(ccalls[o].op = "set" /\ ccalls[o].agent = ccalls[s].agent)
  /\ \A o \in ConfigCallIds :
       (ccalls[o].op = "get" /\ s \in ccalls[o].before) => o >= g

\* C16: the first getModelForAgent after a successful setModelForAgent has
\* returned returns the assigned provider and model (what persistence holds,
\* not an entry cached before the update), whatever calls and refreshes were
\* in flight during the update.
C16_UpdateInvalidatesCache ==
  \A g, s \in ConfigCallIds :
    NextGetAfterSet(g, s) =>
      /\ ccalls[g].ret.provider = ccalls[s].config.provider
      /\ ccalls[g].ret.model = ccalls[s].config.model

DefaultFor(agentSlug) ==
  [agent |-> agentSlug, provider |-> DefaultConfig.provider, model |-> DefaultConfig.model]

\* the cases of C17: no client, a failed fetch, a fetch without a row for the agent
NoClient(g) == ~dbConfigured
FetchFailed(g) == ccalls[g].refreshed /\ ccalls[g].fault
NoRowFetched(g) == ccalls[g].refreshed /\ ccalls[g].noRow

\* C17 as stated: getModelForAgent never throws, and without a client, after
\* a failed fetch and without a row for the agent it returns the default
\* config for the agent.
C17_DefaultOnAnyFailure ==
  \A g \in ConfigCallIds :
    (ccalls[g].op = "get" /\ ccalls[g].pc = "done") =>
      /\ ~ccalls[g].threw
      /\ (NoClient(g) \/ FetchFailed(g) \/ NoRowFetched(g)) =>
           ccalls[g].ret = DefaultFor(ccalls[g].agent)

\* C17 (amended): getModelForAgent never throws and always returns a config
\* for the requested agent; without a client and without a row for the agent
\* it is the default config, routed to the primary CLI; after a failed fetch
\* it is the entry the cache still holds for the agent, and the default only
\* when the cache holds none.
C17_DefaultUnlessCached ==
  \A g \in ConfigCallIds :
    (ccalls[g].op = "get" /\ ccalls[g].pc = "done") =>
      /\ ~ccalls[g].threw
      /\ ccalls[g].ret.agent = ccalls[g].agent
      /\ ccalls[g].ret.provider \in Providers
      /\ (NoClient(g) \/ NoRowFetched(g)) =>
           /\ ccalls[g].ret = DefaultFor(ccalls[g].agent)
           /\ FirstAttempt(ccalls[g].ret.provider) = "cli"
      /\ FetchFailed(g) =>
           ccalls[g].ret = IF ccalls[g].held = NoConfig
                           THEN DefaultFor(ccalls[g].agent)
                           ELSE [agent |-> ccalls[g].agent,
                                 provider |-> ccalls[g].held.provider,
                                 model |-> ccalls[g].held.model]

\* a fetch failed with an empty cache and the default was returned, and a
\* later fetch failed with a cached entry and that entry was returned
C17_Witness ==
  \E g1, g2 \in ConfigCallIds :
    /\ ccalls[g1].op = "get" /\ ccalls[g1].pc = "done"
    /\ ccalls[g2].op = "get" /\ ccalls[g2].pc = "done"
    /\ FetchFailed(g1) /\ FetchFailed(g2)
    /\ ccalls[g1].held = NoConfig
    /\ ccalls[g1].ret = DefaultFor(ccalls[g1].agent)
    /\ ccalls[g2].held = StoredConfig
    /\ ccalls[g2].ret.provider = StoredConfig.provider

Specialists == {GetSpecialistAgents[i] : i \in DOMAIN GetSpecialistAgents}

\* C18: a returned meeting has exactly one response per specialist, in their
\* order; the error field is set on exactly the responses of the specialists
\* whose call threw, and those carry the placeholder; the synthesis ran.
C18_FailedSpecialistsIsolated ==
  meeting.returned =>
    /\ Len(meeting.responses) = Len(GetSpecialistAgents)
    /\ \A i \in DOMAIN meeting.responses :
         /\ meeting.responses[i].agent = GetSpecialistAgents[i]
         /\ (meeting.responses[i].error # NoErrorField) <=> (i \in meeting.failed)
         /\ meeting.responses[i].response =
              IF i \in meeting.failed
              THEN PlaceholderText(GetSpecialistAgents[i])
              ELSE MeetingText(GetSpecialistAgents[i])
    /\ meeting.synthCalls = 1
    /\ Cardinality(meeting.failed) = 1 =>
         Cardinality({i \in DOMAIN meeting.responses :
                        meeting.responses[i].error # NoErrorField}) = 1

\* exactly one specialist failed, with an empty error message
C18_Witness ==
  /\ meeting.returned
  /\ Cardinality(meeting.failed) = 1
  /\ \E i \in meeting.failed : meeting.responses[i].error = ""
  /\ ~meeting.synthFailed

\* C19: the synthesis call is issued at most once, never while a specialist
\* call is pending, and its prompt has one section per specialist with the
\* name and the response or placeholder of that specialist.
C19_SynthesisAfterAllSpecialists ==
  /\ meeting.synthCalls <= 1
  /\ meeting.pc \in {"idle", "fanout"} => meeting.synthCalls = 0
  /\ meeting.pc \in {"synth", "done"} =>
       /\ meeting.synthCalls = 1
       /\ meeting.pendingAtSynth = {}
       /\ \A i \in DOMAIN meeting.slots : meeting.slots[i] # PendingResponse
       /\ Len(meeting.summaries) = Len(GetSpecialistAgents)
       /\ \A i \in DOMAIN meeting.summaries :
            /\ meeting.summaries[i].name = AgentName(GetSpecialistAgents[i])
            /\ meeting.summaries[i].response =
                 IF i \in meeting.failed
                 THEN PlaceholderText(GetSpecialistAgents[i])
                 ELSE MeetingText(GetSpecialistAgents[i])

\* the synthesis call is pending after two specialists failed
C19_Witness ==
  /\ meeting.pc = "synth"
  /\ Cardinality(meeting.failed) = 2
  /\ Len(meeting.summaries) = 5

\* C20: every combination of failures ends in a returned result with all the
\* responses; when the synthesis call failed the synthesis is the fixed string.
C20_MeetingNeverThrows ==
  /\ meeting.pc = "done" <=> meeting.returned
  /\ meeting.returned =>
       /\ Len(meeting.responses) = Len(GetSpecialistAgents)
       /\ meeting.synthesis = IF meeting.synthFailed THEN FallbackSynthesis
                              ELSE SynthesisText

\* every specialist call and the synthesis call failed
C20_Witness ==
  /\ meeting.returned
  /\ meeting.failed = DOMAIN GetSpecialistAgents
  /\ meeting.synthFailed
  /\ meeting.synthesis = FallbackSynthesis

\* C21: when every model call eventually resolves or throws, a started
\* meeting eventually returns, in whatever order the specialist calls
\* complete, and the responses follow the order of the specialists.
C21_MeetingEventuallyReturns ==
  /\ (meeting.pc = "fanout") ~> meeting.returned
  /\ [](meeting.returned =>
          \A i \in DOMAIN meeting.responses :
            meeting.responses[i].agent = GetSpecialistAgents[i])

\* the meeting has returned although the specialists completed in the reverse
\* of their order and the first of them failed
C21_Witness ==
  /\ meeting.returned
  /\ meeting.completed = <<5, 4, 3, 2, 1>>
  /\ meeting.failed = {1}
  /\ meeting.responses[1].agent = "research"

ActionTagsOf(text) ==
  LET matches == MatchAll("action", text)
  IN {Matched(text, matches[k]) : k \in DOMAIN matches}

IntentTagsOf(text) ==
  LET intents == IntentsOf(text)
  IN {intents[k].matched : k \in DOMAIN intents}

\* C23: the text extractActions returns holds none of the matched ACTION tags
\* and extractActions maps it to itself with no action; the text processIntents
\* returns holds none of the matched REMEMBER / GOAL / DONE tags, holds no
\* directive and is returned as it is by another run
C23_TagStrippingIdempotent ==
  /\ tcall.pc # "idle" =>
       /\ \A tag \in ActionTagsOf(tcall.response) : ~Includes(tcall.afterActions, tag)
       /\ ExtractActionsOf(tcall.afterActions)
            = [cleaned |-> tcall.afterActions, actions |-> <<>>]
  /\ tcall.pc = "done" =>
       /\ \A tag \in IntentTagsOf(tcall.afterActions) : ~Includes(tcall.ret, tag)
       /\ IntentsOf(tcall.ret) = <<>>
       /\ Trim(tcall.ret) = tcall.ret

C23_Witness ==
  /\ tcall.pc = "done"
  /\ tcall.response = Concat(<<RemindTag, RememberTag>>)
  /\ tcall.afterActions = RememberTag
  /\ Len(tcall.actions) = 1
  /\ Len(tcall.outcomes) = 1
  /\ tcall.ret = <<>>

\* the place of the first colon of a segment that has one
FirstColon(seg) ==
  CHOOSE k \in DOMAIN seg : seg[k] = ":" /\ \A j \in 1..(k - 1) : seg[j] # ":"
SegKey(seg) == ToLowerCase(Trim(SubSeq(seg, 1, FirstColon(seg) - 1)))
SegValue(seg) == Trim(SubSeq(seg, FirstColon(seg) + 1, Len(seg)))
SegsOf(segs) == {segs[k] : k \in DOMAIN segs}
Reorderings(segs) == {other \in SegmentOrders : SegsOf(other) = SegsOf(segs)}
DistinctKeys(segs) ==
  \A i, j \in DOMAIN segs : SegKey(segs[i]) = SegKey(segs[j]) => i = j

\* the parse of the tag rendered from segs is the parse of every reordering of
\* it, and maps the key of every segment to the value of that segment
OrderIndependent(segs) ==
  /\ Len(tcall.actions) = 1
  /\ tcall.actions[1].type = <<"s", "e", "n", "d", "_", "e", "m", "a", "i", "l">>
  /\ \A other \in Reorderings(segs) :
       LET a == ExtractActionsOf(RenderTag(other)).actions
       IN /\ Len(a) = 1
          /\ a[1].type = tcall.actions[1].type
          /\ FieldMap(a[1].fields) = FieldMap(tcall.actions[1].fields)
  /\ FieldKeys(tcall.actions[1].fields) = {SegKey(segs[k]) : k \in DOMAIN segs}
  /\ \A k \in DOMAIN segs :
       FieldMap(tcall.actions[1].fields)[SegKey(segs[k])] = SegValue(segs[k])

\* C24 as stated: for every set of distinct segments, the tags that carry
\* them in any order yield the same type and the same key-to-value mapping,
\* with keys lowercased and trimmed, values trimmed, segments cut at the first
\* colon
C24_FieldOrderIndependent ==
  \A segs \in SegmentOrders :
    tcall.pc # "idle" /\ tcall.response = RenderTag(segs) => OrderIndependent(segs)

\* C24 amended: the same for segments whose keys are pairwise distinct after
\* trimming and lowercasing
C24_DistinctKeysOrderIndependent ==
  \A segs \in SegmentOrders :
    tcall.pc # "idle" /\ tcall.response = RenderTag(segs) /\ DistinctKeys(segs)
      => OrderIndependent(segs)

C24_Witness ==
  /\ tcall.pc # "idle"
  /\ tcall.response = RenderTag(<<<<" ", "A", "t", " ", ":", "9", ":", "3", "0">>, <<" ", "T", "O", ":", " ", "a", "@", "b", " ">>>>)
  /\ FieldMap(tcall.actions[1].fields)
       = (<<"a", "t">> :> <<"9", ":", "3", "0">>) @@ (<<"t", "o">> :> <<"a", "@", "b">>)

ScenarioAction(cleaned) ==
  /\ tcall.afterActions = cleaned
  /\ Len(tcall.actions) = 1
  /\ tcall.actions[1].type = <<"c", "r", "e", "a", "t", "e", "_", "t", "a", "s", "k">>
  /\ FieldMap(tcall.actions[1].fields)
       = (<<"t", "i", "t", "l", "e">> :> <<"B", "u", "y", " ", "m", "i", "l", "k">>) @@ (<<"d", "u", "e">> :> <<"t", "o", "m", "o", "r", "r", "o", "w">>)

ScenarioDescription ==
  textDb.actions # <<>> =>
    textDb.actions[1].description = <<"C", "r", "e", "a", "t", "e", " ", "t", "a", "s", "k", ":", " ", "\"", "B", "u", "y", " ", "m", "i", "l", "k", "\"", " ", "(", "d", "u", "e", " ", "t", "o", "m", "o", "r", "r", "o", "w", ")">>

\* C25 as stated: for the text of Scenario A extractActions returns the cleaned
\* text "Sure! Done." and the one create_task action with title and due, and
\* queueAction stores the description Create task: "Buy milk" (due tomorrow)
C25_ScenarioA ==
  tcall.pc # "idle" /\ tcall.response = ScenarioA
    => ScenarioAction(<<"S", "u", "r", "e", "!", " ", "D", "o", "n", "e", ".">>) /\ ScenarioDescription

\* C25 amended: the cleaned text keeps the blank on either side of the tag
C25_ScenarioATwoBlanks ==
  tcall.pc # "idle" /\ tcall.response = ScenarioA
    => ScenarioAction(<<"S", "u", "r", "e", "!", " ", " ", "D", "o", "n", "e", ".">>) /\ ScenarioDescription

C25_Witness ==
  /\ tcall.pc = "done"
  /\ tcall.response = ScenarioA
  /\ Len(textDb.actions) = 1
  /\ textDb.actions[1].status = "pending"

RECURSIVE StripTags(_, _)
StripTags(text, intents) ==
  IF intents = <<>> THEN text
  ELSE StripTags(ReplaceFirst(text, Head(intents).matched), Tail(intents))

\* C26: when processIntents has returned, one persistence call was made for
\* every directive of the text, whatever the calls before it returned, and the
\* result is the text without the tags, trimmed
C26_IntentFailuresIsolated ==
  tcall.pc = "done" =>
    LET intents == IntentsOf(tcall.afterActions)
    IN /\ Len(tcall.outcomes) = Len(intents)
       /\ \A k \in DOMAIN intents : tcall.outcomes[k].kind = intents[k].kind
       /\ tcall.ret = Trim(StripTags(tcall.afterActions, intents))
       /\ \A k \in DOMAIN intents : ~Includes(tcall.ret, intents[k].matched)

C26_Witness ==
  /\ tcall.pc = "done"
  /\ dbConfigured
  /\ tcall.response = Concat(<<RememberTag, GoalTag>>)
  /\ tcall.outcomes = << [kind |-> "remember", stored |-> FALSE],
                         [kind |-> "goal", stored |-> TRUE] >>
  /\ Len(textDb.memory) = Len(InitialMemory) + 1
  /\ tcall.ret = <<>>

\* C27: a DONE directive updates the most recent open goal whose content
\* holds the search text, and only that row; without such a goal it changes
\* nothing
C27_DoneCompletesMostRecentGoal ==
  [][/\ tcall.pc = "select" /\ tcall'.pc = "update"
          => tcall'.found
               = Greatest(MatchingGoals(textDb.memory, Head(tcall.todo).content))
     /\ tcall.pc = "select" /\ MatchingGoals(textDb.memory, Head(tcall.todo).content) = {}
          => tcall'.pc # "update"
     /\ tcall.pc = "select" => textDb' = textDb
     /\ tcall.pc = "update"
          => /\ textDb'.actions = textDb.actions
             /\ textDb'.memory \in {textDb.memory, CompleteRow(textDb.memory, tcall.found)}
             /\ textDb.memory[tcall.found].type = "goal"
             /\ CompleteRow(textDb.memory, tcall.found)[tcall.found].completed_at]_vars

\* ------------------------------------------- provider routing: one attempt
\* C28: a callClaude call attempts no provider twice: a provider that failed
\* as the configured provider is left out of the fallback chain
C28_NoProviderAttemptedTwice ==
  \A r \in RouterCallIds :
    \A i, j \in DOMAIN rcalls[r].attempts :
      rcalls[r].attempts[i].provider = rcalls[r].attempts[j].provider => i = j

\* --------------------------------------------- sessions of one call
\* the session id the store holds for an agent: its own entry, and the legacy
\* id for the default key
SessionIdFor(store, agentSlug) ==
  LET own == store.agents[SessionKey(agentSlug)]
  IN IF own \notin {Absent, NullSession} THEN own
     ELSE IF SessionKey(agentSlug) = "general" THEN store.sessionId
     ELSE NullSession

EntersCli(r) == rcalls[r].pc # "cli" /\ rcalls'[r].pc = "cli"
ExitsNonZero(r) ==
  /\ rcalls[r].pc = "cli"
  /\ Len(rcalls'[r].attempts) = Len(rcalls[r].attempts) + 1
  /\ ~rcalls'[r].attempts[Len(rcalls'[r].attempts)].ok
SavedSession(r) ==
  rcalls[r].pc = "save" /\ rcalls'[r].pc = "done" /\ rcalls'[r].set = "claude"

\* C29: callClaudeCLI passes the session id of the agent to the subprocess
\* exactly when resume is set and the agent has one; the id of a "Session ID:"
\* line becomes the stored id of the slug and is in the file once the call has
\* succeeded; a non-zero exit leaves the store and the file as they were
C29_CliSessionHandling ==
  [][\A r \in RouterCallIds :
       /\ EntersCli(r) =>
            rcalls'[r].passed = IF rcalls'[r].resume
                                THEN SessionIdFor(sessions, rcalls'[r].slug)
                                ELSE NullSession
       /\ SetsSession(r) =>
            /\ rcalls'[r].produced = NewSessionId(r)
            /\ sessions'.agents[SessionKey(rcalls[r].slug)] = NewSessionId(r)
       /\ SavedSession(r) =>
            /\ sessionFile'.kind = "store"
            /\ sessionFile'.store.agents[SessionKey(rcalls[r].slug)] = rcalls[r].produced
       /\ ExitsNonZero(r) => sessions' = sessions /\ sessionFile' = sessionFile]_vars

ServedElsewhere(rc) ==
  /\ rc.pc = "done"
  /\ rc.set \in {"openrouter", "ollama", "error"} \/ rc.text = FallbackDisabledText

\* C30: a call that was served by OpenRouter or Ollama, or that ended in
\* error, has sent no session id to those providers and has stored none
C30_FallbackProvidersStateless ==
  \A r \in RouterCallIds :
    ServedElsewhere(rcalls[r]) =>
      /\ \A k \in DOMAIN rcalls[r].attempts :
           rcalls[r].attempts[k].provider # "claude"
             => rcalls[r].attempts[k].session = NullSession
      /\ rcalls[r].produced = NullSession

\* ------------------------------------------------ token usage: properties
\* the call ended with the text of a provider
TerminalSuccess(rc) ==
  rc.pc = "done" /\ rc.attempts # <<>> /\ rc.attempts[Len(rc.attempts)].ok

\* C31: a callClaude call that has ended with the response of a provider,
\* whichever provider served it, has handed exactly one usage entry to
\* trackTokenUsage, and a call that has ended in error has handed none
C31_SuccessTrackedOnce ==
  \A r \in RouterCallIds :
    rcalls[r].pc = "done" =>
      rcalls[r].tracked = IF TerminalSuccess(rcalls[r]) THEN 1 ELSE 0

\* ------------------------------------------- several action tags: properties
\* the texts of MaxPieces pieces at most, as sequences of their pieces
PieceSeqs == UNION {[1..n -> Pieces] : n \in 0..MaxPieces}
IsActionPiece(piece) == piece \in {RemindTag, TaskTag}
IsOtherPiece(piece) == ~IsActionPiece(piece)

\* what the tag of a piece says, read off the tag
WrittenAction(piece) ==
  IF piece = RemindTag
  THEN [type |-> <<"r", "e", "m", "i", "n", "d">>,
        fields |-> <<[key |-> <<"a", "t">>, value |-> <<"9", ":", "3", "0">>]>>]
  ELSE [type |-> <<"c", "r", "e", "a", "t", "e", "_", "t", "a", "s", "k">>,
        fields |-> <<>>]

WrittenActions(parts) ==
  [k \in DOMAIN SelectSeq(parts, IsActionPiece) |->
     WrittenAction(SelectSeq(parts, IsActionPiece)[k])]

\* C32: every action tag of a text is extracted, in the order of appearance,
\* and every occurrence is removed from the cleaned text, also when the same
\* tag occurs more than once; a tag without fields yields an action with an
\* empty field mapping
C32_AllTagsExtractedInOrder ==
  \A parts \in PieceSeqs :
    tcall.pc # "idle" /\ tcall.response = Concat(parts) =>
      /\ tcall.actions = WrittenActions(parts)
      /\ tcall.afterActions = Trim(Concat(SelectSeq(parts, IsOtherPiece)))

\* the same tag without fields twice in one text
C32_Witness ==
  /\ tcall.pc # "idle"
  /\ tcall.response = Concat(<<TaskTag, TaskTag>>)
  /\ Len(tcall.actions) = 2
  /\ tcall.actions[1] = tcall.actions[2]
  /\ tcall.actions[1].fields = <<>>
  /\ tcall.afterActions = <<>>

\* --------------------------------------------- memory stores: properties
IsRememberPiece(piece) == piece = RememberTag
IsGoalPiece(piece) == piece = GoalTag
IsProsePiece(piece) == piece \in {Prose, Blank}
IsStore(outcome) == outcome.kind # "done"
WasStored(store) == store.stored

\* what the tag of a piece asks to store, read off the tag
WrittenRow(piece) ==
  IF piece = RememberTag
  THEN [type |-> "fact", content |-> <<"l", "i", "k", "e", "s", " ", "t", "e", "a">>,
        deadline |-> <<>>, completed_at |-> FALSE]
  ELSE [type |-> "goal",
        content |-> <<"f", "i", "n", "i", "s", "h", " ", "r", "e", "p", "o", "r", "t">>,
        deadline |-> <<"f", "r", "i", "d", "a", "y">>, completed_at |-> FALSE]

\* the REMEMBER pieces and then the GOAL pieces of a text
StorePieces(parts) == SelectSeq(parts, IsRememberPiece) \o SelectSeq(parts, IsGoalPiece)

\* the calls of saveFact and saveGoal processIntents has made, each with the
\* row its tag asks for
StoresMade(parts) ==
  [k \in DOMAIN SelectSeq(tcall.outcomes, IsStore) |->
     [row |-> WrittenRow(StorePieces(parts)[k]),
      kind |-> SelectSeq(tcall.outcomes, IsStore)[k].kind,
      stored |-> SelectSeq(tcall.outcomes, IsStore)[k].stored]]

\* a row as it was inserted: a DONE tag of the same text may have completed it
AsInserted(row) ==
  IF row.type = "completed_goal"
  THEN [row EXCEPT !.type = "goal", !.completed_at = FALSE] ELSE row

\* the rows the memory table has got
RowsAdded ==
  [k \in 1..(Len(textDb.memory) - Len(InitialMemory)) |->
     AsInserted(textDb.memory[Len(InitialMemory) + k])]

OneStorePerTag(parts) ==
  /\ Len(SelectSeq(tcall.outcomes, IsStore)) = Len(StorePieces(parts))
  /\ \A k \in DOMAIN StoresMade(parts) :
       StoresMade(parts)[k].kind
         = (IF StoresMade(parts)[k].row.type = "fact" THEN "remember" ELSE "goal")
  /\ RowsAdded = [k \in DOMAIN SelectSeq(StoresMade(parts), WasStored) |->
                    SelectSeq(StoresMade(parts), WasStored)[k].row]
  /\ tcall.ret = Trim(Concat(SelectSeq(parts, IsProsePiece)))
  /\ \A k \in DOMAIN tcall.ret : tcall.ret[k] \notin {"[", "]"}

\* C33: processIntents makes exactly one store per REMEMBER tag (a fact) and
\* per GOAL tag (a goal with its deadline when it has one); for Scenario D
\* between prose these are the fact "likes tea" and the goal "finish report"
\* with deadline "friday", and the text returned is the prose around the tags,
\* trimmed, with no bracket left
C33_OneStorePerIntent ==
  \A parts \in PieceSeqs \cup {ScenarioDParts} :
    tcall.pc = "done" /\ tcall.response = Concat(parts) => OneStorePerTag(parts)

\* Scenario D with both rows stored
C33_Witness ==
  /\ tcall.pc = "done"
  /\ tcall.response = ScenarioD
  /\ Len(tcall.outcomes) = 2
  /\ RowsAdded = <<WrittenRow(RememberTag), WrittenRow(GoalTag)>>
  /\ tcall.ret = <<"O", "k", ".", " ", " ", "O", "k", ".">>

\* ----------------------------------------------- executed_at: properties
\* C34: in every state, under any interleaving of approveAction and
\* denyAction, the executed_at of an action is set only if its status is
\* executed: it is null while the action is pending, approved or denied
C34_ExecutedAtOnlyWhenExecuted ==
  \A id \in ActionIds :
    actions[id].executed_at # Null => actions[id].status = "executed"

\* ------------------------------------------------ lastProvider: properties
\* call r returns in this step and no other call is in flight afterwards
CompletesAlone(r) ==
  /\ rcalls[r].pc \notin {"idle", "done"}
  /\ rcalls'[r].pc = "done"
  /\ \A q \in RouterCallIds \ {r} : rcalls'[q].pc \in {"idle", "done"}

\* the provider whose text the call returned, "error" when none succeeded
ProviderOf(rc) ==
  IF TerminalSuccess(rc) THEN rc.attempts[Len(rc.attempts)].provider ELSE "error"

\* C35: when a callClaude call completes with no other call in flight,
\* lastProvider is the provider that produced the text the call returned, and
\* it is "error" exactly when no provider succeeded for the call, fallback
\* disabled included
C35_LastProviderReflectsCall ==
  [][\A r \in RouterCallIds : CompletesAlone(r) => lastProvider' = ProviderOf(rcalls'[r])]_vars

\* ------------------------------------------------ session file: properties
\* the calls that stored a session id
Storing == {r \in RouterCallIds : rcalls[r].produced # NullSession}

\* no call is in flight, every call that stored a session id has had its
\* write of the session file finished, and the storing calls were for
\* different agents
AllWritten ==
  /\ \A r \in RouterCallIds : rcalls[r].pc \in {"idle", "done"}
  /\ Storing # {}
  /\ \A r \in Storing : TerminalSuccess(rcalls[r])
  /\ \A r, q \in Storing :
       SessionKey(rcalls[r].slug) = SessionKey(rcalls[q].slug) => r = q

\* C36: once all model calls in flight have completed and their writes of the
\* session file have finished, the session file holds the session store in
\* memory, for every interleaving and completion order of concurrent calls for
\* different agents
C36_FileEqualsStore == AllWritten => sessionFile = StoreFile(sessions)

\* ---------------------------------------------- topic registry: properties
\* C37: after any sequence of setAgentTopicId calls, getAgentByTopicId(t)
\* returns agent a if and only if a.topicId = t: a topic id routes to one agent
\* at most, and a topic id an agent was rebound away from no longer routes to it
C37_TopicRoutingConsistent ==
  \A t \in TopicIds, a \in RegistrySlugs :
    GetAgentByTopicId(t) = a <=> registry.topicId[a] = t

\* ---------------------------------------------------- lock file: properties
Holds(p) == lock.procs[p].got = "true" /\ ProcessExists(p)

\* acquireLock of p reads the lock of a process that no longer exists
ReadsStaleLock(p) ==
  /\ lock.procs[p].pc = "read"
  /\ lock'.procs[p].pc # "read"
  /\ lock.file # NoLock
  /\ ~ProcessExists(lock.file)

\* C38: for every interleaving of relay processes running acquireLock, at most
\* one of them obtains true while the other is alive, and a lock left by a
\* process that no longer exists is taken over
C38_LockExcludes ==
  [][/\ \A p, q \in Pids : Holds(p)' /\ Holds(q)' => p = q
     /\ \A p \in Pids : ReadsStaleLock(p) => lock'.procs[p].pc = "write"]_vars

\* -------------------------------------------- authorization gate: properties
\* C39: with an allowed user id configured, no update from any other user
\* reaches a handler: it triggers no model call, no queueAction and no
\* approveAction or denyAction
C39_OnlyAllowedUserReachesHandlers ==
  gate.allowed # NoUser =>
    \A k \in DOMAIN gate.updates :
      gate.updates[k].user # gate.allowed =>
        ~gate.updates[k].reached /\ gate.updates[k].calls = {}

\* the owner approves an action after somebody else has tried to
C39_Witness ==
  /\ gate.allowed = Owner
  /\ Len(gate.updates) = 2
  /\ gate.updates[1] = [user |-> "other", kind |-> "approve", reached |-> FALSE, calls |-> {}]
  /\ gate.updates[2] = [user |-> Owner, kind |-> "approve", reached |-> TRUE,
                        calls |-> {"approveAction"}]

====
